---- MODULE Spec2Model ----
(***************************************************************************)
(* A model of the browser-session orchestration layer of                   *)
(* supabase-material-updater: the TaskQueue (src/src/utils/task-queue.js), *)
(* the BrowserPool (src/src/services/browser-pool.js) and the batch run    *)
(* with its disconnection recovery (src/unnamed/part_004).                 *)
(*                                                                         *)
(* Each subsystem has its own specification (SpecQueue, SpecPool,          *)
(* SpecBatch) over its own variables; an action of one subsystem leaves    *)
(* the variables of the others unchanged.  An action is the code that runs *)
(* between two suspension points (await, timer, event) of the JavaScript   *)
(* event loop: everything a handler does synchronously is one step.        *)
(***************************************************************************)
EXTENDS Integers, Sequences, FiniteSets, TLC

(***************************************************************************)
(* Bounds of the model.                                                    *)
(***************************************************************************)
\* tasks submitted to one TaskQueue
MaxTasks == 3
\* priorities 0..MaxPriority
MaxPriority == 1
\* concurrency options 0 (absent) .. MaxConcurrencyOption
MaxConcurrencyOption == 2
\* outstanding waitForAll() callers
MaxWaiters == 2
\* concurrent getPage() callers of the BrowserPool
MaxCallers == 3
\* domains 1..NumDomains
NumDomains == 1
\* pages the browser opens over a run of the pool model
MaxPageIds == 3
\* 'disconnected' events of the browser
MaxDisconnects == 1
\* material items a batch run fetches: 0..MaxItems
MaxItems == 2
\* item sources of a material item: 0..MaxSources
MaxSources == 2
\* calls of processAllMaterialItems in one process, one after the other
MaxRuns == 2
\* calls of cleanup() from outside the run (signal handler, importer)
MaxCleanups == 2
\* callers of the SessionManager with a call in progress at the same time
MaxSessionCallers == 1
\* cookie values 1..MaxCookies passed to saveSession
MaxCookies == 1
\* hours that pass while the SessionManager is used
MaxClock == 1
\* the prices with tax of the item sources are drawn from 1..MaxPrice
MaxPrice == 2

TaskIds == 1..MaxTasks
WaiterIds == 1..MaxWaiters
CallerIds == 1..MaxCallers
Domains == 1..NumDomains
PageIds == 1..MaxPageIds

\* task-queue.js:8, the concurrency used when the option is absent or 0
DefaultConcurrency == 3

VARIABLES
    \* ---- TaskQueue (task-queue.js:7-13) ----
    tqConcurrency,   \* this.concurrency
    tqRunning,       \* this.running
    tqQueue,         \* this.queue: sequence of [id, priority]
    tqResults,       \* this.results: sequence of [id, success]
    tqOnComplete,    \* this.onComplete: 0 (null) or the waiter whose resolve it calls
    tqTask,          \* per task: "new", "queued", "running", "settled", "done"
    tqPromise,       \* per task, the promise add() returned: "none", "pending", "resolved", "rejected"
    tqWaiter,        \* per waitForAll() caller: "none", "pending", "resolved"
    tqOutcome,       \* per task, how task() ended: "none", "ok", "error", "nullish"
    \* ---- BrowserPool (browser-pool.js:18-27) ----
    bpBrowser,       \* this.browser: "null", "connected", or "stale" (set, isConnected() false)
    bpHasKey,        \* the domains d for which this.pages[d] is defined
    bpPages,         \* this.pages[d]: sequence of page ids (the pageData objects)
    bpInUse,         \* pageData.inUse of every page object
    bpDomainOf,      \* pageData.domain of every page object (0: not created yet)
    bpTimers,        \* this.pageTimers: the pages with an entry in the timer table
    bpNextId,        \* the next page to create
    bpClosing,       \* a close() call is suspended between its start and its reset
    bpCaller,        \* per caller, the getPage() call in progress
    bpLast,          \* the call the last step ended: the caller of getPage() and its outcome,
                     \* or caller 0 and "closed" for close()
    bpDisconnects,   \* unexpected disconnections of the browser so far
    bpHandler,       \* the call of this.onDisconnect the last step made, and what it found
    bpCrashed,       \* an exception no handler caught has ended the process
    \* ---- batch run (part_004:36-46) ----
    rbInitialized,   \* isInitialized
    rbAttempts,      \* recoveryAttempts
    rbRecovering,    \* isRecovering
    rbCurrentIndex,  \* currentIndex
    rbN,             \* materialItems.length of the run
    rbStack,         \* the suspended calls of processRemainingItems and recoverFromDisconnection
    rbPc,            \* the await at which the innermost call is suspended
    rbItem,          \* the processMaterialItem call in progress
    rbFinal,         \* the results processAllMaterialItems got from processRemainingItems
    rbReturn,        \* the value processAllMaterialItems returned
    rbCommits,       \* store: per item and source, the writes of the extracted value in this run
    rbMarks,         \* store: per item and source, the outdated marks written in this run
    rbAggregates,    \* store: per item, the aggregate updates issued in this run
    rbStarted,       \* per item, the processMaterialItem calls of this run
    rbCycles,        \* the recovery cycles of this run (cooldowns completed)
    rbExhausted,     \* a recovery of this run returned "Exceeded maximum recovery attempts"
    rbRecoveryFailed,\* a recovery of this run returned a failure object
    rbResumedAt,     \* the indices at which a recovery of this run resumed the items
    rbRuns,          \* calls of processAllMaterialItems so far
    rbCleanups,      \* calls of cleanup() so far
    rbCleaning,      \* the cleanup() calls suspended at cleanupScreenshots() and at close()
    \* ---- SessionManager (session-manager.js:15-18) and its directory ----
    smInitialized,   \* this.initialized
    smSessions,      \* this.sessions: per key, the session data or Absent
    smFiles,         \* the sessions directory: per file name, what the file holds
    smCall,          \* per caller, the call in progress
    smLast,          \* the call the last step ended and its result
    smPrev,          \* per domain, the last result of getSession
    smNow            \* the time, in hours

tqVars == <<tqConcurrency, tqRunning, tqQueue, tqResults, tqOnComplete,
            tqTask, tqPromise, tqWaiter, tqOutcome>>

bpVars == <<bpBrowser, bpHasKey, bpPages, bpInUse, bpDomainOf, bpTimers,
            bpNextId, bpClosing, bpCaller, bpLast, bpDisconnects, bpCrashed,
            bpHandler>>

\* the pool without this.browser
bpRestVars == <<bpHasKey, bpPages, bpInUse, bpDomainOf, bpTimers,
                bpNextId, bpClosing, bpCaller, bpLast, bpCrashed,
                bpHandler>>

rbVars == <<rbInitialized, rbAttempts, rbRecovering, rbCurrentIndex, rbN, rbStack,
            rbPc, rbItem, rbFinal, rbReturn, rbCommits, rbMarks, rbAggregates,
            rbStarted, rbCycles, rbExhausted, rbRecoveryFailed, rbResumedAt,
            rbRuns, rbCleanups, rbCleaning>>

smVars == <<smInitialized, smSessions, smFiles, smCall, smLast, smPrev, smNow>>

\* what the actions of a subsystem leave unchanged
notPoolVars == <<tqVars, rbVars, smVars>>
notQueueVars == <<bpVars, rbVars, smVars>>
notBatchVars == <<tqVars, bpRestVars, smVars>>
notSessionVars == <<tqVars, bpVars, rbVars>>

(***************************************************************************)
(* TaskQueue                                                               *)
(***************************************************************************)

\* constructor: this.concurrency = options.concurrency || 3
ConcurrencyOf(option) == IF option = 0 THEN DefaultConcurrency ELSE option

\* Array.prototype.sort((a, b) => b.priority - a.priority): a stable sort,
\* higher priority first.  Insert(e, s) puts e behind every element of the
\* sorted s whose priority is at least e's.
InsertByPriorityMutant(e, s) == <<e>> \o s
RECURSIVE InsertByPriority(_, _)
InsertByPriority(e, s) ==
    IF s = <<>> THEN <<e>>
    ELSE IF Head(s).priority >= e.priority
         THEN <<Head(s)>> \o InsertByPriority(e, Tail(s))
         ELSE <<e>> \o s

RECURSIVE SortByPriority(_)
SortByPriority(s) ==
    IF s = <<>> THEN <<>>
    ELSE InsertByPriority(s[Len(s)], SortByPriority(SubSeq(s, 1, Len(s) - 1)))

\* runNext's guard (task-queue.js:43): nothing is started when it holds
SlotsFullMutant(running, concurrency) == running > concurrency
SlotsFull(running, concurrency) == running >= concurrency

\* runNext (task-queue.js:42-99) on the state st = [running, queue, task]:
\* start the first task of the sorted queue, and again while a slot is free.
RECURSIVE RunNext(_, _)
RunNext(st, concurrency) ==
    IF SlotsFull(st.running, concurrency) \/ st.queue = <<>> THEN st
    ELSE LET sorted == SortByPriority(st.queue)
             started == [running |-> st.running + 1,
                         queue   |-> Tail(sorted),
                         task    |-> [st.task EXCEPT ![Head(sorted).id] = "running"]]
         IN  IF started.running < concurrency
             THEN RunNext(started, concurrency)
             ELSE started

TqInit ==
    /\ tqConcurrency \in {ConcurrencyOf(o) : o \in 0..MaxConcurrencyOption}
    /\ tqRunning = 0
    /\ tqQueue = <<>>
    /\ tqResults = <<>>
    /\ tqOnComplete = 0
    /\ tqTask = [t \in TaskIds |-> "new"]
    /\ tqPromise = [t \in TaskIds |-> "none"]
    /\ tqWaiter = [w \in WaiterIds |-> "none"]
    /\ tqOutcome = [t \in TaskIds |-> "none"]

\* add(task, {priority}) (task-queue.js:23-37): push, then runNext
\* (tasks are numbered in the order of their submission)
TqAdd(t, p) ==
    /\ UNCHANGED notQueueVars
    /\ tqTask[t] = "new"
    /\ \A u \in 1..(t - 1) : tqTask[u] # "new"
    /\ LET pushed == [running |-> tqRunning,
                      queue   |-> Append(tqQueue, [id |-> t, priority |-> p]),
                      task    |-> [tqTask EXCEPT ![t] = "queued"]]
           next == RunNext(pushed, tqConcurrency)
       IN  /\ tqRunning' = next.running
           /\ tqQueue' = next.queue
           /\ tqTask' = next.task
    /\ tqPromise' = [tqPromise EXCEPT ![t] = "pending"]
    /\ UNCHANGED <<tqConcurrency, tqResults, tqOnComplete, tqWaiter, tqOutcome>>

\* the .then / .catch handlers of a started task (task-queue.js:59-84):
\* the outcome is recorded and the promise of add() settled.  A task that
\* rejects with null or undefined makes the catch handler throw at
\* error.message (line 74) before it records or rejects anything.
TqSettle(t, outcome) ==
    /\ UNCHANGED notQueueVars
    /\ tqTask[t] = "running"
    /\ tqTask' = [tqTask EXCEPT ![t] = "settled"]
    /\ tqOutcome' = [tqOutcome EXCEPT ![t] = outcome]
    /\ CASE outcome = "ok" ->
              /\ tqResults' = Append(tqResults, [id |-> t, success |-> TRUE])
              /\ tqPromise' = [tqPromise EXCEPT ![t] = "resolved"]
         [] outcome = "error" ->
              /\ tqResults' = Append(tqResults, [id |-> t, success |-> FALSE])
              /\ tqPromise' = [tqPromise EXCEPT ![t] = "rejected"]
         [] outcome = "nullish" ->
              UNCHANGED <<tqResults, tqPromise>>
    /\ UNCHANGED <<tqConcurrency, tqRunning, tqQueue, tqOnComplete, tqWaiter>>

\* the .finally handler (task-queue.js:85-93): free the slot, runNext, and
\* call onComplete when nothing is queued or running.
TqFinally(t) ==
    /\ UNCHANGED notQueueVars
    /\ tqTask[t] = "settled"
    /\ LET freed == [running |-> tqRunning - 1,
                     queue   |-> tqQueue,
                     task    |-> [tqTask EXCEPT ![t] = "done"]]
           next == RunNext(freed, tqConcurrency)
       IN  /\ tqRunning' = next.running
           /\ tqQueue' = next.queue
           /\ tqTask' = next.task
           /\ tqWaiter' = IF next.queue = <<>> /\ next.running = 0 /\ tqOnComplete # 0
                          THEN [tqWaiter EXCEPT ![tqOnComplete] = "resolved"]
                          ELSE tqWaiter
    /\ UNCHANGED <<tqConcurrency, tqResults, tqOnComplete, tqPromise, tqOutcome>>

\* waitForAll() (task-queue.js:105-115)
\* (callers are numbered in the order of their calls)
TqWaitForAll(w) ==
    /\ UNCHANGED notQueueVars
    /\ tqWaiter[w] = "none"
    /\ \A v \in 1..(w - 1) : tqWaiter[v] # "none"
    /\ IF tqQueue = <<>> /\ tqRunning = 0
       THEN /\ tqWaiter' = [tqWaiter EXCEPT ![w] = "resolved"]
            /\ UNCHANGED tqOnComplete
       ELSE /\ tqWaiter' = [tqWaiter EXCEPT ![w] = "pending"]
            /\ tqOnComplete' = w
    /\ UNCHANGED <<tqConcurrency, tqRunning, tqQueue, tqResults, tqTask, tqPromise,
                   tqOutcome>>

(***************************************************************************)
(* BrowserPool                                                             *)
(***************************************************************************)

\* browser-pool.js:21, this.maxPagesPerDomain of the exported singleton
MaxPagesPerDomain == 2

\* a caller with no getPage() call in progress
IdleCaller ==
    [pc |-> "idle", domain |-> 0, i |-> 0, page |-> 0, armed |-> FALSE, settled |-> FALSE]

\* how a getPage() call ends: "page"; "disconnected", an error whose message
\* holds one of the words part_004 looks for; "disconnection", the error
\* `Browser disconnection: ...` of browser-pool.js:268 around a message that
\* holds none of them; "timeout"; "other"
Outcome(c, outcome) == [caller |-> c, outcome |-> outcome]

NoOutcome == Outcome(0, "none")

\* this.onDisconnect is a function: the pool is used as the batch run uses
\* it, with a handler registered through setDisconnectHandler
\* (browser-pool.js:126-133, part_004:59-65)
HandlerRegistered == TRUE

\* no call of this.onDisconnect
NotInvoked == [called |-> FALSE, pages |-> {}, timers |-> {}]

\* the part of the pool a getPage() call reads and writes
Pool == [browser |-> bpBrowser, has |-> bpHasKey, pages |-> bpPages,
         inUse |-> bpInUse, timers |-> bpTimers, caller |-> bpCaller, last |-> NoOutcome,
         crashed |-> bpCrashed, handler |-> NotInvoked]

\* the pages this.pages holds
Tracked(pages) == UNION {{pages[d][i] : i \in 1..Len(pages[d])} : d \in Domains}

\* A page object that this.pages no longer holds can never be found by the
\* pool again (only a new page is pushed): its inUse flag is left out of the
\* state.  So is a timer that this.pageTimers no longer holds: it finds no
\* page to close.
\* (A process that an uncaught exception has ended takes no step.)
SetPool(P) ==
    /\ ~bpCrashed
    /\ bpCrashed' = P.crashed
    /\ bpBrowser' = P.browser
    /\ bpHasKey' = P.has
    /\ bpPages' = P.pages
    /\ bpInUse' = [p \in PageIds |-> p \in Tracked(P.pages) /\ P.inUse[p]]
    /\ bpTimers' = P.timers
    /\ bpCaller' = P.caller
    /\ bpLast' = P.last
    /\ bpHandler' = P.handler

BpInit ==
    /\ bpBrowser = "null"
    /\ bpHasKey = {}
    /\ bpPages = [d \in Domains |-> <<>>]
    /\ bpInUse = [p \in PageIds |-> FALSE]
    /\ bpDomainOf = [p \in PageIds |-> 0]
    /\ bpTimers = {}
    /\ bpNextId = 1
    /\ bpClosing = FALSE
    /\ bpCaller = [c \in CallerIds |-> IdleCaller]
    /\ bpLast = NoOutcome
    /\ bpDisconnects = 0
    /\ bpCrashed = FALSE
    /\ bpHandler = NotInvoked

RemoveAt(s, i) ==
    IF i >= 1 /\ i <= Len(s)
    THEN SubSeq(s, 1, i - 1) \o SubSeq(s, i + 1, Len(s))
    ELSE s

RECURSIVE IndexOf(_, _, _)
IndexOf(s, x, i) ==
    IF i > Len(s) THEN 0
    ELSE IF s[i] = x THEN i ELSE IndexOf(s, x, i + 1)

\* the promise of caller c's getPage() settles: with the page, or with an error.
\* A call whose promise the wait timeout already rejected ends unobserved, and
\* a page it leased stays marked in use.
Settle(P, c, outcome, page) ==
    IF P.caller[c].settled THEN [P EXCEPT !.caller[c] = IdleCaller]
    ELSE [P EXCEPT !.last = Outcome(c, outcome),
                   !.caller[c] =
                       IF outcome = "page"
                       THEN [pc |-> "holding", domain |-> P.caller[c].domain, i |-> 0,
                             page |-> page, armed |-> FALSE, settled |-> FALSE]
                       ELSE IdleCaller]

\* the lease of page p by caller c (browser-pool.js:179-185, 292-298): its idle
\* timer is cleared and it is marked in use, then the caller awaits evaluate()
LeaseMutant(P, c, p, i, pc) ==
    [P EXCEPT !.inUse[p] = TRUE,
              !.caller[c] = [@ EXCEPT !.pc = pc, !.i = i, !.page = p]]

Lease(P, c, p, i, pc) ==
    [P EXCEPT !.timers = @ \ {p},
              !.inUse[p] = TRUE,
              !.caller[c] = [@ EXCEPT !.pc = pc, !.i = i, !.page = p]]

\* the capacity test of browser-pool.js:204
UnderLimit(n) == n < MaxPagesPerDomain

\* browser-pool.js:203-279: create a page while the domain is under its limit
\* (the caller awaits browser.newPage()), wait for a released page otherwise
CreateOrWait(P, c) ==
    LET d == P.caller[c].domain
    IN  IF UnderLimit(Len(P.pages[d]))
        THEN [P EXCEPT !.caller[c] = [@ EXCEPT !.pc = "creating", !.i = 0, !.page = 0]]
        ELSE [P EXCEPT !.caller[c] = [@ EXCEPT !.pc = "waiting", !.i = 0, !.page = 0,
                                               !.armed = TRUE]]

\* the reuse loop of browser-pool.js:173-201, from index i (1-based)
RECURSIVE ScanReuse(_, _, _)
ScanReuse(P, c, i) ==
    LET d == P.caller[c].domain
    IN  IF i > Len(P.pages[d]) THEN CreateOrWait(P, c)
        ELSE IF ~P.inUse[P.pages[d][i]]
             THEN Lease(P, c, P.pages[d][i], i, "reuseEval")
             ELSE ScanReuse(P, c, i + 1)

\* getPage from the connection check on (browser-pool.js:162-201)
GetPageBody(P, c) ==
    LET d == P.caller[c].domain
    IN  IF P.browser = "stale" THEN Settle(P, c, "disconnected", 0)
        ELSE IF d \in P.has THEN ScanReuse(P, c, 1)
        ELSE ScanReuse([P EXCEPT !.has = @ \cup {d}, !.pages[d] = <<>>], c, 1)

\* the test of initialize() and of getPage (browser-pool.js:67, 157): a
\* browser is launched when this.browser is not set
NeedsLaunch(browser) == browser = "null"

\* this.browser = await puppeteer.launch(...) (browser-pool.js:74): the
\* browser launched replaces whatever this.browser holds
Launch(P) == [P EXCEPT !.browser = "connected"]

\* getPage(domain) up to its first suspension (browser-pool.js:155-160)
GetPageEnter(P, c) ==
    IF NeedsLaunch(P.browser)
    THEN [P EXCEPT !.caller[c] = [@ EXCEPT !.pc = "init"]]
    ELSE GetPageBody(P, c)

\* a caller calls getPage(d)
\* (callers are interchangeable: the idle caller of the lowest number calls)
BpGetPage(c, d) ==
    /\ UNCHANGED notPoolVars
    /\ bpCaller[c].pc = "idle"
    /\ \A b \in 1..(c - 1) : bpCaller[b].pc # "idle"
    /\ SetPool(GetPageEnter([Pool EXCEPT !.caller[c] = [@ EXCEPT !.domain = d]], c))
    /\ UNCHANGED <<bpDomainOf, bpNextId, bpClosing, bpDisconnects>>

\* the initialize() that getPage awaited ends (browser-pool.js:66-120, 159):
\* the launched browser is stored, or the launch error is thrown on
BpInitDone(c, ok) ==
    /\ UNCHANGED notPoolVars
    /\ bpCaller[c].pc = "init"
    /\ IF ok
       THEN SetPool(GetPageBody(Launch(Pool), c))
       ELSE SetPool(Settle(Pool, c, "other", 0))
    /\ UNCHANGED <<bpDomainOf, bpNextId, bpClosing, bpDisconnects>>

\* a caller calls initialize() itself (browser-pool.js:66-71), as the batch
\* run does: with a browser set, that browser is returned at once
BpInitialize(c) ==
    /\ UNCHANGED notPoolVars
    /\ bpCaller[c].pc = "idle"
    /\ \A b \in 1..(c - 1) : bpCaller[b].pc # "idle"
    /\ IF NeedsLaunch(bpBrowser)
       THEN SetPool([Pool EXCEPT !.caller[c] = [@ EXCEPT !.pc = "initOnly"]])
       ELSE SetPool(Pool)
    /\ UNCHANGED <<bpDomainOf, bpNextId, bpClosing, bpDisconnects>>

\* the puppeteer.launch() of that call ends (browser-pool.js:74-119)
BpInitializeDone(c, ok) ==
    /\ UNCHANGED notPoolVars
    /\ bpCaller[c].pc = "initOnly"
    /\ IF ok
       THEN SetPool([Launch(Pool) EXCEPT !.caller[c] = IdleCaller])
       ELSE SetPool([Pool EXCEPT !.caller[c] = IdleCaller])
    /\ UNCHANGED <<bpDomainOf, bpNextId, bpClosing, bpDisconnects>>

\* evaluate() on a reused page ends (browser-pool.js:187-199).  On failure the
\* entry at the loop's index is spliced out of the array as it is now, and the
\* loop goes on at that index; with this.pages[domain] gone the catch block
\* itself throws a TypeError.
BpReuseEvalDone(c, ok) ==
    /\ UNCHANGED notPoolVars
    /\ bpCaller[c].pc = "reuseEval"
    /\ LET d == bpCaller[c].domain
           i == bpCaller[c].i
       IN  IF ok THEN SetPool(Settle(Pool, c, "page", bpCaller[c].page))
           ELSE IF d \notin bpHasKey THEN SetPool(Settle(Pool, c, "other", 0))
           ELSE SetPool(ScanReuse([Pool EXCEPT !.pages[d] = RemoveAt(@, i)], c, i))
    /\ UNCHANGED <<bpDomainOf, bpNextId, bpClosing, bpDisconnects>>

\* the error classification of browser-pool.js:258-273: the error is wrapped
\* when its message names a disconnection or the browser is gone
CreateError(P, messageSaysDisconnected) ==
    IF messageSaysDisconnected THEN "disconnected"
    ELSE IF P.browser \in {"null", "stale"} THEN "disconnection"
    ELSE "other"

\* browser.newPage() and the page's configuration end (browser-pool.js:207-273)
BpCreateDone(c, outcome) ==
    /\ UNCHANGED notPoolVars
    /\ bpCaller[c].pc = "creating"
    /\ LET d == bpCaller[c].domain
       IN  CASE outcome = "ok" /\ d \in bpHasKey ->
                  /\ bpNextId <= MaxPageIds
                  /\ SetPool(Settle([Pool EXCEPT !.pages[d] = Append(@, bpNextId),
                                                 !.inUse[bpNextId] = TRUE],
                                    c, "page", bpNextId))
                  /\ bpDomainOf' = [bpDomainOf EXCEPT ![bpNextId] = d]
                  /\ bpNextId' = bpNextId + 1
             [] outcome = "ok" /\ d \notin bpHasKey ->
                  \* this.pages[domain].push throws a TypeError inside the try
                  /\ SetPool(Settle(Pool, c, CreateError(Pool, FALSE), 0))
                  /\ UNCHANGED <<bpDomainOf, bpNextId>>
             [] outcome = "disconnectError" ->
                  /\ SetPool(Settle(Pool, c, CreateError(Pool, TRUE), 0))
                  /\ UNCHANGED <<bpDomainOf, bpNextId>>
             [] outcome = "otherError" ->
                  /\ SetPool(Settle(Pool, c, CreateError(Pool, FALSE), 0))
                  /\ UNCHANGED <<bpDomainOf, bpNextId>>
    /\ UNCHANGED <<bpClosing, bpDisconnects>>

FirstFreeMutant(P, s, i) == IF i <= Len(s) THEN i ELSE 0

\* the scan of browser-pool.js:288-290 for a page of the domain that is not
\* in use, from index i
RECURSIVE FirstFree(_, _, _)
FirstFree(P, s, i) ==
    IF i > Len(s) THEN 0
    ELSE IF ~P.inUse[s[i]] THEN i ELSE FirstFree(P, s, i + 1)

\* a tick of the wait interval (browser-pool.js:280-332) that changes something:
\* the browser is gone, or a page of the domain is free; with a connected
\* browser and this.pages[domain] gone, the for...of of line 288 throws a
\* TypeError out of the timer callback, which nothing catches
BpWaitPoll(c) ==
    /\ UNCHANGED notPoolVars
    /\ bpCaller[c].pc = "waiting"
    /\ LET d == bpCaller[c].domain
       IN  IF bpBrowser # "connected"
           THEN SetPool(Settle(Pool, c, "disconnected", 0))
           ELSE IF d \notin bpHasKey
           THEN SetPool([Pool EXCEPT !.crashed = TRUE])
           ELSE /\ FirstFree(Pool, bpPages[d], 1) # 0
                /\ LET i == FirstFree(Pool, bpPages[d], 1)
                   IN  SetPool(Lease(Pool, c, bpPages[d][i], i, "waitEval"))
    /\ UNCHANGED <<bpDomainOf, bpNextId, bpClosing, bpDisconnects>>

\* the 30 s timeout of the wait (browser-pool.js:335-338): the interval is
\* cleared and the promise rejected; a lease or a retry already under way
\* goes on unobserved
BpWaitTimeout(c) ==
    /\ UNCHANGED notPoolVars
    /\ bpCaller[c].armed
    /\ ~bpCaller[c].settled
    /\ IF bpCaller[c].pc \in {"waiting", "stuck"}
       THEN SetPool(Settle(Pool, c, "timeout", 0))
       ELSE SetPool([Pool EXCEPT !.caller[c] = [@ EXCEPT !.settled = TRUE],
                                 !.last = Outcome(c, "timeout")])
    /\ UNCHANGED <<bpDomainOf, bpNextId, bpClosing, bpDisconnects>>

\* evaluate() on a page leased by the wait ends (browser-pool.js:300-327): the
\* promise resolves with the page, or the page is removed and getPage is
\* called again; with this.pages[domain] gone the handler throws and the
\* promise is left to the timeout
BpWaitEvalDone(c, ok) ==
    /\ UNCHANGED notPoolVars
    /\ bpCaller[c].pc = "waitEval"
    /\ LET d == bpCaller[c].domain
           p == bpCaller[c].page
       IN  IF ok THEN SetPool(Settle(Pool, c, "page", p))
           ELSE IF d \notin bpHasKey
           THEN SetPool([Pool EXCEPT !.caller[c] = [@ EXCEPT !.pc = "stuck"]])
           ELSE SetPool(GetPageEnter(
                    [Pool EXCEPT !.pages[d] = RemoveAt(@, IndexOf(@, p, 1))], c))
    /\ UNCHANGED <<bpDomainOf, bpNextId, bpClosing, bpDisconnects>>

\* page.release() by the caller holding the page (browser-pool.js:355-380)
BpRelease(c) ==
    /\ UNCHANGED notPoolVars
    /\ bpCaller[c].pc = "holding"
    /\ SetPool([Pool EXCEPT !.inUse[bpCaller[c].page] = FALSE,
                             !.timers = @ \cup {bpCaller[c].page},
                             !.caller[c] = IdleCaller])
    /\ UNCHANGED <<bpDomainOf, bpNextId, bpClosing, bpDisconnects>>

\* an idle timer fires (browser-pool.js:361-379)
BpIdleTimeout(p) ==
    /\ UNCHANGED notPoolVars
    /\ p \in bpTimers
    /\ LET d == bpDomainOf[p]
           i == IndexOf(bpPages[d], p, 1)
           closes == d \in bpHasKey /\ i # 0 /\ ~bpInUse[p]
       IN  SetPool([Pool EXCEPT !.pages[d] = IF closes THEN RemoveAt(@, i) ELSE @,
                                !.timers = @ \ {p}])
    /\ UNCHANGED <<bpDomainOf, bpNextId, bpClosing, bpDisconnects>>

\* cleanupResources() (browser-pool.js:139-148)
CleanupResources(P) ==
    [P EXCEPT !.timers = {}, !.has = {}, !.pages = [d \in Domains |-> <<>>]]

\* the call of this.onDisconnect (browser-pool.js:105-111), if a handler is
\* registered: the handler finds the page table and the timer table as they
\* are at the call
InvokeHandler(P) ==
    IF HandlerRegistered
    THEN [P EXCEPT !.handler = [called |-> TRUE, pages |-> Tracked(P.pages),
                                timers |-> P.timers]]
    ELSE P

\* the listener of the browser's 'disconnected' event (browser-pool.js:78-112),
\* which runs with this.browser set: cleanupResources() at line 102, then the
\* handler at line 107
DisconnectedListener(P) == InvokeHandler(CleanupResources(P))

\* the browser disconnects unexpectedly and emits 'disconnected'
\* (browser-pool.js:78-112)
BpDisconnected ==
    /\ UNCHANGED notPoolVars
    /\ bpBrowser = "connected"
    /\ bpDisconnects < MaxDisconnects
    /\ SetPool(DisconnectedListener([Pool EXCEPT !.browser = "stale"]))
    /\ bpDisconnects' = bpDisconnects + 1
    /\ UNCHANGED <<bpDomainOf, bpNextId, bpClosing>>

\* close() has returned
Closed(P) == [P EXCEPT !.last = Outcome(0, "closed")]

\* close() (browser-pool.js:400-441) up to its first await: without a browser
\* it returns at once (line 401, 438-440); else the idle timers are cleared; a
\* disconnected browser is not awaited, and the reset follows at once
BpCloseBegin ==
    /\ UNCHANGED notPoolVars
    /\ ~bpClosing
    /\ CASE bpBrowser = "null" ->
              /\ SetPool(Closed(Pool))
              /\ UNCHANGED bpClosing
         [] bpBrowser = "connected" ->
              /\ SetPool([Pool EXCEPT !.timers = {}])
              /\ bpClosing' = TRUE
         [] bpBrowser = "stale" ->
              /\ SetPool(Closed(CleanupResources([Pool EXCEPT !.browser = "null"])))
              /\ UNCHANGED bpClosing
    /\ UNCHANGED <<bpDomainOf, bpNextId, bpDisconnects>>

\* close() after its awaits (browser-pool.js:410-435).  The browser.close()
\* of line 424 disconnects a connected browser, which emits 'disconnected'
\* while this.browser is still set: the listener runs, then the reset of
\* lines 433-435.  With the browser already disconnected the awaits fail, the
\* error is logged at line 430, and the reset follows.  A timer set since the
\* start of close() stays pending, and finds no page when it fires.
BpCloseEnd ==
    /\ UNCHANGED notPoolVars
    /\ bpClosing
    /\ bpClosing' = FALSE
    /\ IF bpBrowser = "connected"
       THEN SetPool(Closed(CleanupResources(
                [DisconnectedListener(Pool) EXCEPT !.browser = "null"])))
       ELSE SetPool(Closed(CleanupResources([Pool EXCEPT !.browser = "null"])))
    /\ UNCHANGED <<bpDomainOf, bpNextId, bpDisconnects>>

PoolNext ==
    \/ \E c \in CallerIds, d \in Domains : BpGetPage(c, d)
    \/ \E c \in CallerIds, ok \in BOOLEAN : BpInitDone(c, ok)
    \/ \E c \in CallerIds : BpInitialize(c)
    \/ \E c \in CallerIds, ok \in BOOLEAN : BpInitializeDone(c, ok)
    \/ \E c \in CallerIds, ok \in BOOLEAN : BpReuseEvalDone(c, ok)
    \/ \E c \in CallerIds, o \in {"ok", "disconnectError", "otherError"} : BpCreateDone(c, o)
    \/ \E c \in CallerIds : BpWaitPoll(c)
    \/ \E c \in CallerIds : BpWaitTimeout(c)
    \/ \E c \in CallerIds, ok \in BOOLEAN : BpWaitEvalDone(c, ok)
    \/ \E c \in CallerIds : BpRelease(c)
    \/ \E p \in PageIds : BpIdleTimeout(p)
    \/ BpDisconnected
    \/ BpCloseBegin
    \/ BpCloseEnd

(***************************************************************************)
(* The batch run and its recovery (src/unnamed/part_004)                   *)
(*                                                                         *)
(* processAllMaterialItems calls processRemainingItems, which calls        *)
(* recoverFromDisconnection, which calls processRemainingItems again: the  *)
(* chain of suspended calls is rbStack, and rbPc is the await at which     *)
(* the innermost call is suspended.  The items of a run are 0..rbN-1.      *)
(***************************************************************************)

\* part_004:41
MAX_RECOVERY_ATTEMPTS == 5

\* the methods of the DatabaseService class (database.js:22-312).  A call of
\* a method the class does not have throws a TypeError.
StoreMethods ==
    {"fetchMaterialItems", "getItemSourcesForMaterialItem", "searchMaterialItemsBySku",
     "fetchItemSources", "updateItemSource", "markUrlAsOutdated", "updateMaterialItem",
     "getSourceById", "sourceExists", "getAllSources"}

Items == 0..(MaxItems - 1)
Sources == 1..MaxSources

\* the results object of processRemainingItems (part_004:167-175); details
\* holds one record per processed item, updated the items whose result
\* carried updatedItemSources
EmptyResults ==
    [success |-> 0, failed |-> 0, skipped |-> 0, outdated |-> 0,
     details |-> <<>>, updated |-> {}]

\* the failure object of recoverFromDisconnection (part_004:104-109, 151-156)
FailureResult(error, startIndex, total) ==
    [failure |-> TRUE, error |-> error, processed |-> startIndex, total |-> total]

IsFailure(v) == "failure" \in DOMAIN v

\* the merge of a recovery's result into the caller's results
\* (part_004:186-197, 228-239): a field the result lacks, and the boolean
\* success: false of a failure object, count as 0
Merge(res, v) ==
    IF IsFailure(v) THEN res
    ELSE [success  |-> res.success + v.success,
          failed   |-> res.failed + v.failed,
          skipped  |-> res.skipped + v.skipped,
          outdated |-> res.outdated + v.outdated,
          details  |-> res.details \o v.details,
          updated  |-> res.updated \cup v.updated]

\* the result object of processMaterialItem (part_004:562-566, 635-667)
ItemResult(item, success, error, outdatedUrls, updated) ==
    [item |-> item, success |-> success, error |-> error,
     outdatedUrls |-> outdatedUrls, updated |-> updated]

\* the processMaterialItem call in progress: the source at which it is (k), the
\* number of sources fetched (nsrc), those whose url new URL() rejected (bad),
\* those extracted (ok) and those marked outdated (outd)
NoItem == [k |-> 0, nsrc |-> 0, bad |-> {}, ok |-> {}, outd |-> {}]

\* the state a step of the batch run reads and writes
Batch ==
    [pc |-> rbPc, stack |-> rbStack, n |-> rbN, item |-> rbItem,
     initialized |-> rbInitialized, attempts |-> rbAttempts,
     recovering |-> rbRecovering, currentIndex |-> rbCurrentIndex,
     browser |-> bpBrowser, final |-> rbFinal, ret |-> rbReturn,
     commits |-> rbCommits, marks |-> rbMarks, aggregates |-> rbAggregates,
     started |-> rbStarted, cycles |-> rbCycles, exhausted |-> rbExhausted,
     recoveryFailed |-> rbRecoveryFailed, resumedAt |-> rbResumedAt]

SetBatch(state) ==
    \E B \in {state} :
    /\ rbPc' = B.pc
    /\ rbStack' = B.stack
    /\ rbN' = B.n
    /\ rbItem' = B.item
    /\ rbInitialized' = B.initialized
    /\ rbAttempts' = B.attempts
    /\ rbRecovering' = B.recovering
    /\ rbCurrentIndex' = B.currentIndex
    /\ bpBrowser' = B.browser
    /\ rbFinal' = B.final
    /\ rbReturn' = B.ret
    /\ rbCommits' = B.commits
    /\ rbMarks' = B.marks
    /\ rbAggregates' = B.aggregates
    /\ rbStarted' = B.started
    /\ rbCycles' = B.cycles
    /\ rbExhausted' = B.exhausted
    /\ rbRecoveryFailed' = B.recoveryFailed
    /\ rbResumedAt' = B.resumedAt

NoReturn == [kind |-> "none"]

RbInit ==
    /\ rbPc = "idle"
    /\ rbStack = <<>>
    /\ rbN = 0
    /\ rbItem = NoItem
    /\ rbInitialized = FALSE
    /\ rbAttempts = 0
    /\ rbRecovering = FALSE
    /\ rbCurrentIndex = 0
    /\ rbFinal = EmptyResults
    /\ rbReturn = NoReturn
    /\ rbCommits = [i \in Items |-> [s \in Sources |-> 0]]
    /\ rbMarks = [i \in Items |-> [s \in Sources |-> 0]]
    /\ rbAggregates = [i \in Items |-> 0]
    /\ rbStarted = [i \in Items |-> 0]
    /\ rbCycles = 0
    /\ rbExhausted = FALSE
    /\ rbRecoveryFailed = FALSE
    /\ rbResumedAt = {}
    /\ rbRuns = 0
    /\ rbCleanups = 0
    /\ rbCleaning = [screens |-> 0, closing |-> 0]

Top(stack) == stack[Len(stack)]
Pop(stack) == SubSeq(stack, 1, Len(stack) - 1)
SetTop(stack, f) == [stack EXCEPT ![Len(stack)] = f]

PriFrame(startIndex) ==
    [fn |-> "pri", start |-> startIndex, i |-> startIndex, res |-> EmptyResults]
RecFrame(startIndex) == [fn |-> "rec", start |-> startIndex]

\* the bound test of recoverFromDisconnection (part_004:102)
RecoveryExceededMutant(attempts) == attempts > MAX_RECOVERY_ATTEMPTS
RecoveryUnboundedMutant(attempts) == FALSE
RecoveryExceeded(attempts) == attempts >= MAX_RECOVERY_ATTEMPTS

\* the reset test of recoverFromDisconnection (part_004:136)
AllProcessedMutant(startIndex, result, n) == TRUE

AllProcessed(startIndex, result, n) == startIndex + result.success + result.failed >= n

\* the index at which recoverFromDisconnection resumes (part_004:133)
ResumeIndexMutant(startIndex) == startIndex + 1
ResumeFromStartMutant(startIndex) == 0
ResumeIndex(startIndex) == startIndex

\* The operators below take the state of the run and yield the state at the
\* next await.  Each evaluates its arguments once, as a JavaScript call does:
\* B \in {state} names the value of the argument state.

RECURSIVE PriReturns(_, _)
RECURSIVE RecReturns(_, _)

\* processRemainingItems, the innermost call, returns results: to
\* processAllMaterialItems (part_004:701), or to the recovery that called it
\* (part_004:133-141), which resets the recovery state when every item was
\* processed and returns the results in its turn
PriReturns(state, results) ==
    CHOOSE out \in
      {LET rest == Pop(B.stack)
       IN  IF rest = <<>>
           THEN [B EXCEPT !.stack = <<>>, !.pc = "post", !.final = res]
           ELSE LET done == AllProcessed(Top(rest).start, res, B.n)
                IN  RecReturns([B EXCEPT !.stack = rest,
                                         !.recovering = IF done THEN FALSE ELSE @,
                                         !.attempts = IF done THEN 0 ELSE @],
                               res)
       : B \in {state}, res \in {results}} : TRUE

\* recoverFromDisconnection, the innermost call, returns result: to the
\* processRemainingItems that called it, which merges it and returns
\* (part_004:185-197), or to the recovery whose catch block called it
\* (part_004:149), which returns it
RecReturns(state, result) ==
    CHOOSE out \in
      {LET rest == Pop(B.stack)
           caller == Top(rest)
           merged == Merge(caller.res, v)
       IN  IF caller.fn = "pri"
           THEN PriReturns([B EXCEPT !.stack = SetTop(rest, [caller EXCEPT !.res = merged])],
                           merged)
           ELSE RecReturns([B EXCEPT !.stack = rest], v)
       : B \in {state}, v \in {result}} : TRUE

\* recoverFromDisconnection(items, startIndex) up to its first await
\* (part_004:101-116): the failure object when the bound is reached, the
\* cooldown otherwise
RecoverEnter(state, startIndex) ==
    CHOOSE out \in
      {LET called == [B EXCEPT !.stack = Append(@, RecFrame(startIndex))]
       IN  IF RecoveryExceeded(B.attempts)
           THEN RecReturns([called EXCEPT !.exhausted = TRUE, !.recoveryFailed = TRUE],
                           FailureResult("exceeded", startIndex, B.n))
           ELSE [called EXCEPT !.pc = "cooldown"]
       : B \in {state}} : TRUE

\* the head of the loop of processRemainingItems (part_004:177-202) and the
\* start of processMaterialItem (part_004:550-558), up to the first await
LoopTop(state) ==
    CHOOSE out \in
      {LET f == Top(B.stack)
           at == [B EXCEPT !.currentIndex = f.i]
       IN  IF f.i >= B.n THEN PriReturns(B, f.res)
           ELSE IF B.browser = "null" THEN RecoverEnter(at, f.i)
           ELSE [at EXCEPT !.pc = IF B.initialized THEN "item_fetch" ELSE "item_init",
                           !.item = NoItem,
                           !.started[f.i] = @ + 1]
       : B \in {state}} : TRUE

\* processMaterialItem returned result (part_004:204-216): it is counted and
\* pushed to the details, and the loop goes on
ItemDone(state, result) ==
    CHOOSE out \in
      {LET f == Top(B.stack)
           res == [f.res EXCEPT
                      !.success = IF r.success THEN @ + 1 ELSE @,
                      !.updated = IF r.success THEN @ \cup r.updated ELSE @,
                      !.failed = IF r.success THEN @ ELSE @ + 1,
                      !.outdated = IF r.success THEN @ ELSE @ + Cardinality(r.outdatedUrls),
                      !.details = Append(@, r)]
       IN  LoopTop([B EXCEPT !.stack = SetTop(@, [f EXCEPT !.res = res, !.i = f.i + 1]),
                             !.item = NoItem])
       : B \in {state}, r \in {result}} : TRUE

\* the catch block of processMaterialItem (part_004:659-667): any error, a
\* browser disconnection among them, becomes a failed result
ItemError(state, error) ==
    CHOOSE out \in
      {ItemDone(B, ItemResult(Top(B.stack).i, FALSE, error, {}, {}))
       : B \in {state}} : TRUE

\* updateMaterialItems(updates) (part_004:478-542) for the updates of the
\* items in the set items: nothing for no updates, else one aggregate update
\* per item through batchUpdateMaterialItems.  Yields the state and "none",
\* "updated" or "error".
UpdateMaterialItems(B, items) ==
    IF items = {} THEN [b |-> B, outcome |-> "none"]
    ELSE IF "batchUpdateMaterialItems" \notin StoreMethods
    THEN [b |-> B, outcome |-> "error"]
    ELSE [b |-> [B EXCEPT !.aggregates = [i \in Items |->
                                            IF i \in items THEN @[i] + 1 ELSE @[i]]],
          outcome |-> "updated"]

\* the end of processDomainItems and of processMaterialItem
\* (part_004:458-470, 593-658) once every source of the item was processed
ItemEnd(state) ==
    CHOOSE out \in
      {LET it == B.item
           i == Top(B.stack).i
           \* part_004:459-462 and 465-468: the batch writes of the domain
           marked == it.outd # {} /\ "batchMarkUrlsAsOutdated" \in StoreMethods
           markThrows == it.outd # {} /\ ~marked
           written == ~markThrows /\ it.ok # {} /\ "batchUpdateItemSources" \in StoreMethods
           writeThrows == ~markThrows /\ it.ok # {} /\ ~written
           B1 == [B EXCEPT
                    !.marks[i] = [s \in Sources |-> IF marked /\ s \in it.outd
                                                    THEN @[s] + 1 ELSE @[s]],
                    !.commits[i] = [s \in Sources |-> IF written /\ s \in it.ok
                                                      THEN @[s] + 1 ELSE @[s]]]
           domainThrows == markThrows \/ writeThrows
           \* part_004:613-625: the error of a domain is logged and its result
           \* dropped, unless the pool's browser is null
           okSources == IF domainThrows THEN {} ELSE it.ok
           outdated == IF domainThrows THEN {} ELSE it.outd
           upd == UpdateMaterialItems(B1, IF okSources = {} THEN {} ELSE {i})
       IN  IF domainThrows /\ B.browser = "null" THEN ItemError(B1, "disconnection")
           ELSE IF upd.outcome = "error" THEN ItemError(upd.b, "other")
           ELSE IF upd.outcome = "updated"
                THEN ItemDone(upd.b, ItemResult(i, TRUE, "none", outdated, {i}))
                ELSE ItemDone(upd.b, ItemResult(i, FALSE, "none", outdated, {}))
       : B \in {state}} : TRUE

\* the start of source k in processDomainItems and processItemSource
\* (part_004:415-421, 305-312), up to the await of the screenshot
SourceStart(state, k) ==
    CHOOSE out \in
      {IF B.browser = "null" THEN ItemError(B, "disconnection")
       ELSE [B EXCEPT !.pc = "source", !.item.k = k]
       : B \in {state}} : TRUE

\* the source after source k in the domain groups of the item
\* (part_004:569-584): a source whose url cannot be parsed is in no group
NextSource(it, k) ==
    LET rest == {s \in (k + 1)..it.nsrc : s \notin it.bad}
    IN  IF rest = {} THEN 0 ELSE CHOOSE s \in rest : \A t \in rest : s <= t

\* the loops over the domain groups and their sources go on after source k
\* (part_004:591, 415), or end
AfterSource(state, k) ==
    CHOOSE out \in
      {IF NextSource(B.item, k) = 0 THEN ItemEnd(B)
       ELSE SourceStart(B, NextSource(B.item, k))
       : B \in {state}} : TRUE

\* the catch block of processAllMaterialItems (part_004:737-754): the pool is
\* closed unless a recovery is under way, and the value returned carries the
\* error only
RunCatch(B) ==
    [B EXCEPT !.pc = "returned", !.stack = <<>>,
              !.browser = IF B.recovering THEN @ ELSE "null",
              !.ret = [kind |-> "error"]]

\* browserPool.initialize() (browser-pool.js:66-120) when the launch succeeds
Launched(browser) == IF browser = "null" THEN "connected" ELSE browser

\* processAllMaterialItems(options) is called (part_004:676-682), up to its
\* first await.  The store's counters are those of this run.
RbRunBegin ==
    /\ UNCHANGED notBatchVars
    /\ rbPc \in {"idle", "returned"}
    /\ rbRuns < MaxRuns
    /\ rbRuns' = rbRuns + 1
    /\ SetBatch([Batch EXCEPT !.pc = IF rbInitialized THEN "run_fetch" ELSE "run_init",
                              !.final = EmptyResults, !.ret = NoReturn, !.n = 0,
                              !.commits = [i \in Items |-> [s \in Sources |-> 0]],
                              !.marks = [i \in Items |-> [s \in Sources |-> 0]],
                              !.aggregates = [i \in Items |-> 0],
                              !.started = [i \in Items |-> 0],
                              !.cycles = 0, !.exhausted = FALSE, !.recoveryFailed = FALSE,
                              !.resumedAt = {}])
    /\ UNCHANGED <<rbCleanups, rbCleaning, bpDisconnects>>

\* initialize() (part_004:51-69) of processAllMaterialItems ends: the browser
\* is launched and isInitialized set, or a collaborator raised
RbRunInitDone(ok) ==
    /\ UNCHANGED notBatchVars
    /\ rbPc = "run_init"
    /\ SetBatch(IF ok THEN [Batch EXCEPT !.browser = Launched(@), !.initialized = TRUE,
                                         !.pc = "run_fetch"]
                ELSE RunCatch(Batch))
    /\ UNCHANGED <<rbRuns, rbCleanups, rbCleaning, bpDisconnects>>

\* fetchMaterialItems returned n items (part_004:690-701): the recovery state
\* is reset and processRemainingItems(materialItems, 0) called
RbRunFetched(n) ==
    /\ UNCHANGED notBatchVars
    /\ rbPc = "run_fetch"
    /\ SetBatch(LoopTop([Batch EXCEPT !.n = n, !.currentIndex = 0, !.attempts = 0,
                                      !.recovering = FALSE,
                                      !.stack = <<PriFrame(0)>>]))
    /\ UNCHANGED <<rbRuns, rbCleanups, rbCleaning, bpDisconnects>>

\* fetchMaterialItems raised (part_004:690, 737)
RbRunFetchFailed ==
    /\ UNCHANGED notBatchVars
    /\ rbPc = "run_fetch"
    /\ SetBatch(RunCatch(Batch))
    /\ UNCHANGED <<rbRuns, rbCleanups, rbCleaning, bpDisconnects>>

\* initialize() of processMaterialItem ends (part_004:551-558)
RbItemInitDone(ok) ==
    /\ UNCHANGED notBatchVars
    /\ rbPc = "item_init"
    /\ SetBatch(IF ok THEN [Batch EXCEPT !.browser = Launched(@), !.initialized = TRUE,
                                         !.pc = "item_fetch"]
                ELSE ItemError(Batch, "other"))
    /\ UNCHANGED <<rbRuns, rbCleanups, rbCleaning, bpDisconnects>>

\* fetchItemSources returned nsrc sources, those of bad with a url that
\* cannot be parsed (part_004:558-593): no source ends the item, else the
\* sources are grouped and the first source of the groups is started
RbItemFetched(nsrc, bad) ==
    /\ UNCHANGED notBatchVars
    /\ rbPc = "item_fetch"
    /\ SetBatch(IF nsrc = 0
                THEN ItemDone(Batch, ItemResult(Top(rbStack).i, FALSE, "none", {}, {}))
                ELSE AfterSource([Batch EXCEPT !.item.nsrc = nsrc, !.item.bad = bad], 0))
    /\ UNCHANGED <<rbRuns, rbCleanups, rbCleaning, bpDisconnects>>

\* fetchItemSources raised (part_004:558, 659)
RbItemFetchFailed ==
    /\ UNCHANGED notBatchVars
    /\ rbPc = "item_fetch"
    /\ SetBatch(ItemError(Batch, "other"))
    /\ UNCHANGED <<rbRuns, rbCleanups, rbCleaning, bpDisconnects>>

\* processItemSource ends for the source in progress (part_004:312-388):
\*   "updated"      the price was extracted and updateItemSource wrote it;
\*   "outdated"     no screenshot or no price, markUrlAsOutdated wrote the mark;
\*   "error"        a collaborator raised, its message not of the disconnection class;
\*   "disconnected" a collaborator raised a message of the disconnection class.
\* The loop of processDomainItems goes on with the next source or ends.
RbSourceDone(outcome) ==
    /\ UNCHANGED notBatchVars
    /\ rbPc = "source"
    /\ LET i == Top(rbStack).i
           k == rbItem.k
           B == CASE outcome = "updated" ->
                       [Batch EXCEPT !.commits[i][k] = @ + 1, !.item.ok = @ \cup {k}]
                  [] outcome = "outdated" ->
                       [Batch EXCEPT !.marks[i][k] = @ + 1, !.item.outd = @ \cup {k}]
                  [] OTHER -> Batch
           thrown == outcome = "disconnected" \/ (outcome = "error" /\ bpBrowser = "null")
       IN  SetBatch(IF thrown THEN ItemError(B, "disconnection")
                    ELSE AfterSource(B, k))
    /\ UNCHANGED <<rbRuns, rbCleanups, rbCleaning, bpDisconnects>>

\* the cooldown of recoverFromDisconnection is over (part_004:116-127): a
\* recovery cycle starts, the pool is closed and the browser launched again
RbCooldownDone ==
    /\ UNCHANGED notBatchVars
    /\ rbPc = "cooldown"
    /\ SetBatch([Batch EXCEPT !.recovering = TRUE, !.attempts = @ + 1, !.cycles = @ + 1,
                              !.browser = "null", !.pc = "reinit"])
    /\ UNCHANGED <<rbRuns, rbCleanups, rbCleaning, bpDisconnects>>

\* browserPool.initialize() of the recovery ends (part_004:127-157):
\*   "ok"           processRemainingItems resumes;
\*   "disconnected" it raised a message of the disconnection class: the catch
\*                  block calls recoverFromDisconnection again;
\*   "error"        it raised another message: the failure object is returned.
RbReinitDone(outcome) ==
    /\ UNCHANGED notBatchVars
    /\ rbPc = "reinit"
    /\ LET startIndex == Top(rbStack).start
       IN  SetBatch(CASE outcome = "ok" ->
                           LoopTop([Batch EXCEPT
                                      !.browser = Launched(@),
                                      !.resumedAt = @ \cup {startIndex},
                                      !.stack = Append(@, PriFrame(ResumeIndex(startIndex)))])
                      [] outcome = "disconnected" -> RecoverEnter(Batch, startIndex)
                      [] OTHER ->
                           RecReturns([Batch EXCEPT !.recoveryFailed = TRUE],
                                      FailureResult("init", startIndex, rbN)))
    /\ UNCHANGED <<rbRuns, rbCleanups, rbCleaning, bpDisconnects>>

\* processAllMaterialItems after processRemainingItems (part_004:703-736): the
\* aggregates of the updated items are written, the screenshots cleaned, the
\* pool closed unless a recovery is under way, and success returned
RbRunFinish ==
    /\ UNCHANGED notBatchVars
    /\ rbPc = "post"
    /\ LET upd == UpdateMaterialItems(Batch, rbFinal.updated)
       IN  SetBatch(IF upd.outcome = "error" THEN RunCatch(upd.b)
                    ELSE [upd.b EXCEPT !.pc = "returned",
                                       !.browser = IF rbRecovering THEN @ ELSE "null",
                                       !.ret = [kind |-> "success", n |-> rbN,
                                                results |-> rbFinal]])
    /\ UNCHANGED <<rbRuns, rbCleanups, rbCleaning, bpDisconnects>>

\* the end of cleanup() (part_004:86-92): close() has reset the pool, and
\* isInitialized is cleared
CleanupEndMutant(B) == [B EXCEPT !.browser = "null"]

CleanupEnd(B) == [B EXCEPT !.browser = "null", !.initialized = FALSE]

\* cleanup() (part_004:74-80) is called from outside the run, by a signal
\* handler or by an importer of the module, while other calls may be under
\* way: it returns at once when isInitialized is false, and awaits
\* cleanupScreenshots() otherwise
RbCleanupBegin ==
    /\ UNCHANGED notBatchVars
    /\ rbCleanups < MaxCleanups
    /\ rbCleanups' = rbCleanups + 1
    /\ rbCleaning' = IF rbInitialized THEN [rbCleaning EXCEPT !.screens = @ + 1]
                     ELSE rbCleaning
    /\ SetBatch(Batch)
    /\ UNCHANGED <<rbRuns, bpDisconnects>>

\* cleanupScreenshots() of a cleanup() call settles, either way
\* (part_004:79-89), and browserPool.close() is called: with a connected
\* browser it is awaited; with none, or a disconnected one, it returns with
\* the pool reset (browser-pool.js:401, 426-435) and cleanup() ends
RbCleanupScreensDone ==
    /\ UNCHANGED notBatchVars
    /\ rbCleaning.screens > 0
    /\ IF bpBrowser = "connected"
       THEN /\ rbCleaning' = [screens |-> rbCleaning.screens - 1,
                              closing |-> rbCleaning.closing + 1]
            /\ SetBatch(Batch)
       ELSE /\ rbCleaning' = [rbCleaning EXCEPT !.screens = @ - 1]
            /\ SetBatch(CleanupEnd(Batch))
    /\ UNCHANGED <<rbRuns, rbCleanups, bpDisconnects>>

\* browserPool.close() of a cleanup() call ends (part_004:84-92,
\* browser-pool.js:409-435): whatever the awaits of close() met, the pool is
\* reset, and cleanup() ends
RbCleanupCloseDone ==
    /\ UNCHANGED notBatchVars
    /\ rbCleaning.closing > 0
    /\ rbCleaning' = [rbCleaning EXCEPT !.closing = @ - 1]
    /\ SetBatch(CleanupEnd(Batch))
    /\ UNCHANGED <<rbRuns, rbCleanups, bpDisconnects>>

BatchNext ==
    \/ RbRunBegin
    \/ \E ok \in BOOLEAN : RbRunInitDone(ok)
    \/ \E n \in 0..MaxItems : RbRunFetched(n)
    \/ RbRunFetchFailed
    \/ \E ok \in BOOLEAN : RbItemInitDone(ok)
    \/ \E nsrc \in 0..MaxSources : \E bad \in SUBSET (1..nsrc) : RbItemFetched(nsrc, bad)
    \/ RbItemFetchFailed
    \/ \E o \in {"updated", "outdated", "error", "disconnected"} : RbSourceDone(o)
    \/ RbCooldownDone
    \/ \E o \in {"ok", "disconnected", "error"} : RbReinitDone(o)
    \/ RbRunFinish
    \/ RbCleanupBegin
    \/ RbCleanupScreensDone
    \/ RbCleanupCloseDone
    \/ BpDisconnected

(***************************************************************************)
(* SessionManager (src/src/services/session-manager.js)                    *)
(*                                                                         *)
(* Time is counted in hours.  A name is a sequence of parts, ".json" being *)
(* one part: the file of domain <<"a">> is <<"a", ".json">>.               *)
(***************************************************************************)

\* session-manager.js:9
SESSION_VALIDITY_HOURS == 24

SmCallers == 1..MaxSessionCallers

\* the domains callers ask for
SmDomains == {<<"a">>, <<"b">>}

\* the cookies callers save; 0 are the cookies of the files found at start
SmCookies == 1..MaxCookies

\* path.join(SESSIONS_DIR, `${domain}.json`) (session-manager.js:106, 140, 164)
FileOf(domain) == Append(domain, ".json")

\* file.endsWith('.json') (session-manager.js:35, 194)
EndsWithJson(file) == file # <<>> /\ file[Len(file)] = ".json"

\* file.replace('.json', '') (session-manager.js:41): the first occurrence
\* of ".json" is removed
RECURSIVE ReplaceFirstJson(_)
ReplaceFirstJson(file) ==
    IF file = <<>> THEN <<>>
    ELSE IF Head(file) = ".json" THEN Tail(file)
    ELSE <<Head(file)>> \o ReplaceFirstJson(Tail(file))

\* the entries fs.readdir(SESSIONS_DIR) can list, in the order it lists
\* them: a file that is no session file, and the files of the domains
SmDirectory == <<<<"notes", ".txt">>, FileOf(<<"a">>), FileOf(<<"b">>)>>

SmFileNames == {SmDirectory[k] : k \in 1..Len(SmDirectory)}

SmJsonFiles == {f \in SmFileNames : EndsWithJson(f)}

\* the keys this.sessions can get
SmKeys == SmDomains \cup {ReplaceFirstJson(f) : f \in SmJsonFiles}

\* What a file holds, and what this.sessions holds for a key.  kind:
\* "absent" (no file, no entry), "corrupt" (not JSON), "other" (no session
\* file), "session" (a JSON value).  stamp: "ok" (timestamp is a date, given
\* in hours) or "missing" (a value without timestamp).
Absent == [kind |-> "absent", stamp |-> "missing", timestamp |-> 0, cookies |-> 0]
Corrupt == [kind |-> "corrupt", stamp |-> "missing", timestamp |-> 0, cookies |-> 0]
OtherFile == [kind |-> "other", stamp |-> "missing", timestamp |-> 0, cookies |-> 0]
Session(stamp, timestamp, cookies) ==
    [kind |-> "session", stamp |-> stamp, timestamp |-> timestamp, cookies |-> cookies]

\* isSessionValid(sessionData) at time now (session-manager.js:71-81)
IsSessionValidMutant(sessionData, now) ==
    /\ sessionData.kind = "session"
    /\ sessionData.stamp = "ok"
    /\ now - sessionData.timestamp <= SESSION_VALIDITY_HOURS
IsSessionValid(sessionData, now) ==
    /\ sessionData.kind = "session"
    /\ sessionData.stamp = "ok"
    /\ now - sessionData.timestamp < SESSION_VALIDITY_HOURS

\* this.sessions after the tests of getSession(domain)
\* (session-manager.js:129-148): an entry found expired is deleted, anything
\* else is left as it is
SessionsAfterGetMutant(sessions, domain, now) == [sessions EXCEPT ![domain] = Absent]
SessionsAfterGet(sessions, domain, now) ==
    IF sessions[domain].kind # "absent" /\ ~IsSessionValid(sessions[domain], now)
    THEN [sessions EXCEPT ![domain] = Absent]
    ELSE sessions

\* the sessionData of saveSession (session-manager.js:96-100); extra is
\* "none", or "timestamp" for an extraData with a timestamp of its own, here
\* one as old as the validity window, which replaces the fresh one
SessionData(now, cookies, extra) ==
    IF extra = "timestamp"
    THEN Session("ok", now - SESSION_VALIDITY_HOURS, cookies)
    ELSE Session("ok", now, cookies)

\* what getSession returned: "none" (no call yet), "null" or "session";
\* dirty: clearSession, clearAllSessions or a load wrote the entry of the
\* domain since
SmGot(result, data, dirty) == [result |-> result, data |-> data, dirty |-> dirty]

SmNoGot == SmGot("none", Absent, FALSE)

\* a caller with no call in progress.  op: the method called; pc: the await
\* at which the call is suspended; todo: the files the loop of initialize
\* has not read yet; data: the sessionData of saveSession or the expired
\* session of getSession; before: what the getSession of the domain before
\* this one returned, as of the moment this one read this.sessions; listed,
\* visited, loaded: the .json files initialize listed, those it read, and
\* those it stored in this.sessions
SmIdle ==
    [op |-> "none", pc |-> "idle", domain |-> <<>>, cookies |-> 0, extra |-> "none",
     todo |-> <<>>, data |-> Absent, before |-> SmNoGot,
     listed |-> {}, visited |-> {}, loaded |-> {}]

\* how the last step ended a call: result is "void", "null", "session",
\* "true", "false" or "threw"; path is "list" for a failure of mkdir or
\* readdir, "expired" for a session getSession found expired (found);
\* prev is the result of the getSession call of the domain before this one,
\* if no saveSession of the domain came between.  fault: the storage
\* operation that settled in the last step failed.
SmOutcome(c, call, result, data, path, prev) ==
    [caller |-> c, op |-> call.op, domain |-> call.domain, result |-> result,
     data |-> data, path |-> path, found |-> call.data, prev |-> prev, fault |-> FALSE,
     listed |-> call.listed, visited |-> call.visited, loaded |-> call.loaded]

SmNoOutcome == SmOutcome(0, SmIdle, "none", Absent, "none", SmNoGot)

\* the state of the session manager and of its directory
Sm == [initialized |-> smInitialized, sessions |-> smSessions, files |-> smFiles,
       call |-> smCall, last |-> SmNoOutcome, prev |-> smPrev]

SetSm(state) ==
    \E S \in {state} :
        /\ smInitialized' = S.initialized
        /\ smSessions' = S.sessions
        /\ smFiles' = S.files
        /\ smCall' = S.call
        /\ smLast' = S.last
        /\ smPrev' = S.prev

\* the files the directory can hold when the process starts
SmStartFiles ==
    {Absent, Corrupt, Session("missing", 0, 0),
     Session("ok", 0 - SESSION_VALIDITY_HOURS, 0),
     Session("ok", 1 - SESSION_VALIDITY_HOURS, 0)}

SmInit ==
    /\ smInitialized = FALSE
    /\ smSessions = [k \in SmKeys |-> Absent]
    /\ smFiles \in [SmFileNames -> SmStartFiles \cup {OtherFile}]
    /\ \A f \in SmFileNames : (smFiles[f] = OtherFile) <=> ~EndsWithJson(f)
    /\ smCall = [c \in SmCallers |-> SmIdle]
    /\ smLast = SmNoOutcome
    /\ smPrev = [d \in SmDomains |-> SmNoGot]
    /\ smNow = 0

\* a call of caller c returns result (or throws: result "threw"); fault:
\* the storage operation that settled failed.  A getSession that found an
\* expired session read this.sessions before its await (path "expired").
SmReturn(state, c, result, data, path, fault) ==
    CHOOSE out \in
      {LET call == S.call[c]
           d == call.domain
           got == call.op = "getSession" /\ result \in {"null", "session"}
           read == got /\ path # "expired"
       IN  [S EXCEPT
              !.call[c] = SmIdle,
              !.last = [SmOutcome(c, call, result, data, path,
                                  IF read THEN S.prev[d]
                                  ELSE IF got THEN call.before ELSE SmNoGot)
                          EXCEPT !.fault = fault],
              !.prev = IF read THEN [@ EXCEPT ![d] = SmGot(result, data, FALSE)] ELSE @]
       : S \in {state}} : TRUE

\* clearSession, clearAllSessions or a load wrote the entries of keys
SmTouch(prev, keys) ==
    [d \in SmDomains |-> IF d \in keys THEN [prev[d] EXCEPT !.dirty = TRUE] ELSE prev[d]]

\* The body of a method of caller c after its `if (!this.initialized) await
\* this.initialize()`, up to its first await or its return.
SmBody(state, c) ==
    CHOOSE out \in
      {LET call == S.call[c]
           d == call.domain
           session == S.sessions[d]
           sessionData == SessionData(smNow, call.cookies, call.extra)
       IN  CASE call.op = "initialize" ->
                  \* session-manager.js:25 or 58-59
                  SmReturn(S, c, "void", Absent, "none", FALSE)
             [] call.op = "getSession" ->
                  \* session-manager.js:129-148
                  IF session.kind = "absent"
                  THEN SmReturn(S, c, "null", Absent, "none", FALSE)
                  ELSE IF ~IsSessionValid(session, smNow)
                  THEN [S EXCEPT !.sessions = SessionsAfterGet(@, d, smNow),
                                 !.prev[d] = SmGot("null", Absent, FALSE),
                                 !.call[c].before = S.prev[d],
                                 !.call[c].pc = "getUnlink",
                                 !.call[c].data = session]
                  ELSE SmReturn([S EXCEPT !.sessions = SessionsAfterGet(@, d, smNow)],
                                c, "session", session, "none", FALSE)
             [] call.op = "saveSession" ->
                  \* session-manager.js:95-109
                  [S EXCEPT !.sessions[d] = sessionData,
                            !.prev[d] = SmNoGot,
                            !.call[c].data = sessionData,
                            !.call[c].pc = "write"]
             [] call.op = "clearSession" ->
                  \* session-manager.js:161-165
                  [S EXCEPT !.sessions[d] = Absent,
                            !.prev = SmTouch(@, {d}),
                            !.call[c].pc = "clear"]
             [] call.op = "clearAllSessions" ->
                  \* session-manager.js:188-191
                  [S EXCEPT !.sessions = [k \in SmKeys |-> Absent],
                            !.prev = SmTouch(@, SmDomains),
                            !.call[c].pc = "clearAll"]
       : S \in {state}} : TRUE

\* the for loop of initialize (session-manager.js:34-59) up to its next
\* await: files that are no .json files are passed over; after the last
\* file the manager is initialized and the method that awaited goes on
RECURSIVE SmLoop(_, _)
SmLoop(state, c) ==
    CHOOSE out \in
      {LET todo == S.call[c].todo
       IN  IF todo = <<>>
           THEN SmBody([S EXCEPT !.initialized = TRUE], c)
           ELSE IF ~EndsWithJson(Head(todo))
           THEN SmLoop([S EXCEPT !.call[c].todo = Tail(todo)], c)
           ELSE [S EXCEPT !.call[c].pc = "read",
                          !.call[c].visited = @ \cup {Head(todo)}]
       : S \in {state}} : TRUE

\* the next file of the loop, after the file at the head was dealt with or
\* the catch block of the file (session-manager.js:52-54) logged its error
SmNextFileMutant(state, c) == SmLoop([state EXCEPT !.call[c].todo = <<>>], c)
SmNextFile(state, c) == SmLoop([state EXCEPT !.call[c].todo = Tail(@)], c)

\* the storage operation that settled in this step succeeded (ok) or failed
SmSettled(S, ok) == [S EXCEPT !.last.fault = ~ok]

\* the .json files of the directory, in the order of readdir
SmListing(files) == SelectSeq(SmDirectory, LAMBDA f : files[f].kind # "absent")

\* a call of a method up to its first await (session-manager.js:24-29,
\* 90-93, 124-127, 156-159, 183-186); cookies and extra are the arguments
\* of saveSession.  (Callers are interchangeable: the call goes to the
\* first caller that has none in progress.)
SmCall(c, op, domain, cookies, extra) ==
    /\ UNCHANGED notSessionVars
    /\ UNCHANGED smNow
    /\ smCall[c].pc = "idle"
    /\ \A b \in 1..(c - 1) : smCall[b].pc # "idle"
    /\ LET called == [Sm EXCEPT !.call[c] = [SmIdle EXCEPT !.op = op,
                                                           !.domain = domain,
                                                           !.cookies = cookies,
                                                           !.extra = extra],
                                !.prev = IF op = "saveSession"
                                         THEN [@ EXCEPT ![domain] = SmNoGot]
                                         ELSE @]
       IN  IF smInitialized
           THEN SetSm(SmBody(called, c))
           ELSE SetSm([called EXCEPT !.call[c].pc = "list"])

\* fs.mkdir and fs.readdir of initialize settle (session-manager.js:29-32):
\* a failure is rethrown by initialize (lines 60-63) and by the method that
\* awaits it
SmListDone(c, ok) ==
    /\ UNCHANGED notSessionVars
    /\ UNCHANGED smNow
    /\ smCall[c].pc = "list"
    /\ IF ok
       THEN SetSm(SmLoop([Sm EXCEPT
                            !.call[c].todo = SmListing(smFiles),
                            !.call[c].listed =
                                {f \in SmJsonFiles : smFiles[f].kind # "absent"}], c))
       ELSE SetSm(SmReturn(Sm, c, "threw", Absent, "list", TRUE))

\* fs.readFile of the file at the head settles (session-manager.js:37-51):
\* a valid session is stored, an invalid one is unlinked; an error of
\* readFile or JSON.parse is caught and the loop goes on
SmReadDone(c, ok) ==
    /\ UNCHANGED notSessionVars
    /\ UNCHANGED smNow
    /\ smCall[c].pc = "read"
    /\ LET file == Head(smCall[c].todo)
           sessionData == smFiles[file]
           domain == ReplaceFirstJson(file)
       IN  IF ~ok \/ sessionData.kind \in {"absent", "corrupt"}
           THEN SetSm(SmSettled(SmNextFile(Sm, c), ok))
           ELSE IF IsSessionValid(sessionData, smNow)
           THEN SetSm(SmNextFile([Sm EXCEPT !.sessions[domain] = sessionData,
                                            !.prev = SmTouch(@, {domain}),
                                            !.call[c].loaded = @ \cup {file}], c))
           ELSE SetSm([Sm EXCEPT !.call[c].pc = "initUnlink"])

\* fs.unlink of the expired file settles (session-manager.js:50-54)
SmInitUnlinkDone(c, ok) ==
    /\ UNCHANGED notSessionVars
    /\ UNCHANGED smNow
    /\ smCall[c].pc = "initUnlink"
    /\ LET file == Head(smCall[c].todo)
       IN  SetSm(SmSettled(SmNextFile([Sm EXCEPT
                                          !.files[file] = IF ok THEN Absent ELSE @], c),
                           ok))

\* fs.unlink of getSession settles (session-manager.js:139-145)
SmGetUnlinkDone(c, ok) ==
    /\ UNCHANGED notSessionVars
    /\ UNCHANGED smNow
    /\ smCall[c].pc = "getUnlink"
    /\ LET file == FileOf(smCall[c].domain)
       IN  SetSm(SmReturn([Sm EXCEPT !.files[file] = IF ok THEN Absent ELSE @],
                          c, "null", Absent, "expired", ~ok))

\* fs.writeFile of saveSession settles (session-manager.js:105-116):
\* outcome is "ok", "failed" (the file is as before) or "partial" (the file
\* was truncated or written in part)
SmWriteDone(c, outcome) ==
    /\ UNCHANGED notSessionVars
    /\ UNCHANGED smNow
    /\ smCall[c].pc = "write"
    /\ LET file == FileOf(smCall[c].domain)
       IN  CASE outcome = "ok" ->
                  SetSm(SmReturn([Sm EXCEPT !.files[file] = smCall[c].data],
                                 c, "true", Absent, "none", FALSE))
             [] outcome = "failed" ->
                  SetSm(SmReturn(Sm, c, "false", Absent, "none", TRUE))
             [] outcome = "partial" ->
                  SetSm(SmReturn([Sm EXCEPT !.files[file] = Corrupt],
                                 c, "false", Absent, "none", TRUE))

\* fs.access and fs.unlink of clearSession settle (session-manager.js:163-176)
SmClearDone(c, ok) ==
    /\ UNCHANGED notSessionVars
    /\ UNCHANGED smNow
    /\ smCall[c].pc = "clear"
    /\ LET file == FileOf(smCall[c].domain)
       IN  /\ ~ok => smFiles[file].kind # "absent"
           /\ SetSm(SmReturn([Sm EXCEPT !.files[file] = IF ok THEN Absent ELSE @],
                             c, IF ok THEN "true" ELSE "false", Absent, "none", ~ok))

\* fs.readdir and the fs.unlink calls of clearAllSessions settle
\* (session-manager.js:190-204): all .json files are removed, or the first
\* k of them before a failure
SmClearAllDone(c, k, ok) ==
    /\ UNCHANGED notSessionVars
    /\ UNCHANGED smNow
    /\ smCall[c].pc = "clearAll"
    /\ LET files == SelectSeq(SmListing(smFiles), EndsWithJson)
           removed == IF ok THEN Len(files) ELSE k
       IN  /\ ok => k = 0
           /\ ~ok => k = 0 \/ k < Len(files)
           /\ SetSm(SmReturn([Sm EXCEPT
                                 !.files = [f \in SmFileNames |->
                                              IF \E j \in 1..removed : files[j] = f
                                              THEN Absent ELSE @[f]]],
                             c, IF ok THEN "true" ELSE "false", Absent, "none", ~ok))

\* an hour passes
SmTick ==
    /\ UNCHANGED notSessionVars
    /\ smNow < MaxClock
    /\ smNow' = smNow + 1
    /\ smLast' = SmNoOutcome
    /\ UNCHANGED <<smInitialized, smSessions, smFiles, smCall, smPrev>>

SessionNext ==
    \/ \E c \in SmCallers : SmCall(c, "initialize", <<>>, 0, "none")
    \/ \E c \in SmCallers, d \in SmDomains : SmCall(c, "getSession", d, 0, "none")
    \/ \E c \in SmCallers, d \in SmDomains, k \in SmCookies, e \in {"none", "timestamp"} :
          SmCall(c, "saveSession", d, k, e)
    \/ \E c \in SmCallers, d \in SmDomains : SmCall(c, "clearSession", d, 0, "none")
    \/ \E c \in SmCallers : SmCall(c, "clearAllSessions", <<>>, 0, "none")
    \/ \E c \in SmCallers, ok \in BOOLEAN : SmListDone(c, ok)
    \/ \E c \in SmCallers, ok \in BOOLEAN : SmReadDone(c, ok)
    \/ \E c \in SmCallers, ok \in BOOLEAN : SmInitUnlinkDone(c, ok)
    \/ \E c \in SmCallers, ok \in BOOLEAN : SmGetUnlinkDone(c, ok)
    \/ \E c \in SmCallers, o \in {"ok", "failed", "partial"} : SmWriteDone(c, o)
    \/ \E c \in SmCallers, ok \in BOOLEAN : SmClearDone(c, ok)
    \/ \E c \in SmCallers, k \in 0..Cardinality(SmJsonFiles), ok \in BOOLEAN :
          SmClearAllDone(c, k, ok)
    \/ SmTick

vars == <<tqVars, bpVars, rbVars, smVars>>

\* the state of a subsystem a specification does not exercise
TqParked ==
    /\ tqConcurrency = DefaultConcurrency
    /\ tqRunning = 0
    /\ tqQueue = <<>>
    /\ tqResults = <<>>
    /\ tqOnComplete = 0
    /\ tqTask = [t \in TaskIds |-> "new"]
    /\ tqPromise = [t \in TaskIds |-> "none"]
    /\ tqWaiter = [w \in WaiterIds |-> "none"]
    /\ tqOutcome = [t \in TaskIds |-> "none"]

\* the session manager of a process that never uses it, on an empty directory
SmParked ==
    /\ smInitialized = FALSE
    /\ smSessions = [k \in SmKeys |-> Absent]
    /\ smFiles = [f \in SmFileNames |-> IF EndsWithJson(f) THEN Absent ELSE OtherFile]
    /\ smCall = [c \in SmCallers |-> SmIdle]
    /\ smLast = SmNoOutcome
    /\ smPrev = [d \in SmDomains |-> SmNoGot]
    /\ smNow = 0

\* the process before the first call of the pool
PoolInit == BpInit /\ TqParked /\ RbInit /\ SmParked

SpecPool == PoolInit /\ [][PoolNext]_vars

\* the pool when the 30 s timer of each wait fires (browser-pool.js:335-338)
SpecPoolFair == SpecPool /\ \A c \in CallerIds : WF_vars(BpWaitTimeout(c))

QueueNext ==
    \/ \E t \in TaskIds, p \in 0..MaxPriority : TqAdd(t, p)
    \/ \E t \in TaskIds, o \in {"ok", "error", "nullish"} : TqSettle(t, o)
    \/ \E t \in TaskIds : TqFinally(t)
    \/ \E w \in WaiterIds : TqWaitForAll(w)

\* the process after new TaskQueue(options)
QueueInit == TqInit /\ BpInit /\ RbInit /\ SmParked

SpecQueue == QueueInit /\ [][QueueNext]_vars

\* the steps of the queue that the event loop takes by itself once a started
\* task has terminated: the .then/.catch handler and the .finally handler
QueueProgress ==
    \/ \E t \in TaskIds, o \in {"ok", "error", "nullish"} : TqSettle(t, o)
    \/ \E t \in TaskIds : TqFinally(t)

\* the queue when every started task terminates
SpecQueueFair == SpecQueue /\ WF_vars(QueueProgress)

\* the process after the module of the batch run was loaded
BatchInit == RbInit /\ BpInit /\ TqParked /\ SmParked

\* the process before the first call of the session manager
SessionInit == SmInit /\ TqParked /\ BpInit /\ RbInit

SpecSession == SessionInit /\ [][SessionNext]_vars

SpecBatch == BatchInit /\ [][BatchNext]_vars

\* the steps of a run that end an await: the cooldown timer fires, and a
\* call of a collaborator (store, browser launch, scraper) settles
BatchProgress ==
    \/ \E ok \in BOOLEAN : RbRunInitDone(ok)
    \/ \E n \in 0..MaxItems : RbRunFetched(n)
    \/ RbRunFetchFailed
    \/ \E ok \in BOOLEAN : RbItemInitDone(ok)
    \/ \E nsrc \in 0..MaxSources : \E bad \in SUBSET (1..nsrc) : RbItemFetched(nsrc, bad)
    \/ RbItemFetchFailed
    \/ \E o \in {"updated", "outdated", "error", "disconnected"} : RbSourceDone(o)
    \/ RbCooldownDone
    \/ \E o \in {"ok", "disconnected", "error"} : RbReinitDone(o)
    \/ RbRunFinish

\* the batch run when every await of the run settles
SpecBatchFair == SpecBatch /\ WF_vars(BatchProgress)

\* the tasks the queue counts as running: started, .finally not yet run
TqStarted == {t \in TaskIds : tqTask[t] \in {"running", "settled"}}

(***************************************************************************)
(* C2: the number of tasks running simultaneously never exceeds the        *)
(* queue's concurrency, and this.running counts exactly the started tasks. *)
(***************************************************************************)
C2_ConcurrencyCap ==
    /\ Cardinality(TqStarted) <= tqConcurrency
    /\ tqRunning = Cardinality(TqStarted)

\* every slot is taken and a task still waits in the queue
C2_Witness ==
    /\ Cardinality(TqStarted) = tqConcurrency
    /\ tqQueue # <<>>
    /\ \E t \in TaskIds : tqTask[t] = "done"


\* the items recorded in the details of the calls stack[1..k]
RECURSIVE Recorded(_, _)
Recorded(stack, k) ==
    IF k = 0 THEN 0
    ELSE Recorded(stack, k - 1)
         + (IF stack[k].fn = "pri" THEN Len(stack[k].res.details) ELSE 0)

\* the details a run has recorded so far, in the suspended calls or in the
\* results handed to processAllMaterialItems
RECURSIVE DetailsOf(_)
DetailsOf(stack) ==
    IF stack = <<>> THEN <<>>
    ELSE DetailsOf(Pop(stack))
         \o (IF Top(stack).fn = "pri" THEN Top(stack).res.details ELSE <<>>)

RunDetails == IF rbStack = <<>> THEN rbFinal.details ELSE DetailsOf(rbStack)

C5_ExhaustionReportedAsFailure ==
    (rbPc = "returned" /\ rbExhausted) => rbReturn.kind # "success"

(***************************************************************************)
(* C6: when the run returns, the returned counts success + failed +        *)
(* skipped add up to the number of items of the input list.                *)
(***************************************************************************)
C6_CountsCoverInput ==
    (rbPc = "returned" /\ rbReturn.kind = "success") =>
        rbReturn.results.success + rbReturn.results.failed + rbReturn.results.skipped = rbN

(***************************************************************************)
(* C7: an item during whose processing a disconnection-class error was     *)
(* raised is never recorded in the details as a failed item.               *)
(***************************************************************************)
C7_DisconnectionNotRecordedAsFailure ==
    \A j \in 1..Len(RunDetails) : RunDetails[j].error # "disconnection"

(***************************************************************************)
(* C8: the value processAllMaterialItems returns after items were         *)
(* processed carries the results: a detail for every item processed in the *)
(* run, and every source the run marked outdated in the outdated list of   *)
(* its item.                                                               *)
(***************************************************************************)
C8_ReturnAccountsForWork ==
    (rbPc = "returned" /\ \E i \in Items : rbStarted[i] > 0) =>
        /\ rbReturn.kind = "success"
        /\ \A i \in Items : rbStarted[i] > 0 =>
              \E j \in 1..Len(rbReturn.results.details) :
                  /\ rbReturn.results.details[j].item = i
                  /\ \A s \in Sources : rbMarks[i][s] > 0 =>
                        s \in rbReturn.results.details[j].outdatedUrls

(***************************************************************************)
(* C9: in a run that returns without any disconnection or recovery, every  *)
(* extracted value was written to the store exactly once, and the          *)
(* aggregate update of its item was issued exactly once.                   *)
(***************************************************************************)
C9_ConsumedExactlyOnce ==
    (/\ rbPc = "returned"
     /\ rbReturn.kind = "success"
     /\ rbCycles = 0
     /\ ~rbRecoveryFailed
     /\ \A j \in 1..Len(RunDetails) : RunDetails[j].error # "disconnection") =>
        \A i \in Items :
            /\ \A s \in Sources : rbCommits[i][s] <= 1
            /\ (\E s \in Sources : rbCommits[i][s] > 0) => rbAggregates[i] = 1

(***************************************************************************)
(* C10: every waitForAll() caller is resolved once the queue is empty and  *)
(* no task is running; stated as: in an idle queue no caller is pending.   *)
(***************************************************************************)
C10_IdleResolvesEveryWaiter ==
    (tqQueue = <<>> /\ tqRunning = 0) => \A w \in WaiterIds : tqWaiter[w] # "pending"

(***************************************************************************)
(* C1: for every domain the pool never tracks more than maxPagesPerDomain  *)
(* PageHandles, so never more than that many with inUse = true.            *)
(***************************************************************************)
C1_PagesPerDomainBounded ==
    \A d \in Domains :
        /\ Len(bpPages[d]) <= MaxPagesPerDomain
        /\ Cardinality({i \in 1..Len(bpPages[d]) : bpInUse[bpPages[d][i]]}) <= MaxPagesPerDomain

\* the records of task t in this.results
TqRecords(results, t) == {k \in 1..Len(results) : results[k].id = t}

\* the tasks whose task() failed
TqFailed == {t \in TaskIds : tqOutcome[t] \in {"error", "nullish"}}

(***************************************************************************)
(* C11: the step that resolves a waitForAll() caller leaves no task queued *)
(* or running, and this.results, which the caller receives, then holds     *)
(* exactly one record of every task submitted so far.                      *)
(***************************************************************************)
C11_WaitForAllSeesEveryOutcome ==
    [][\A w \in WaiterIds :
          (tqWaiter[w] # "resolved" /\ tqWaiter'[w] = "resolved") =>
              /\ tqQueue' = <<>>
              /\ tqRunning' = 0
              /\ \A t \in TaskIds :
                    tqTask'[t] # "new" => Cardinality(TqRecords(tqResults', t)) = 1]_vars

(***************************************************************************)
(* C12: add() leaves the task queued or started with its promise pending,  *)
(* the promise only ever settles with the task's own outcome, and once the *)
(* task has terminated its promise is resolved (success) or rejected       *)
(* (failure, whatever the value).                                          *)
(***************************************************************************)
C12_AddSettlesWithOwnOutcome ==
    \A t \in TaskIds :
        /\ tqTask[t] \in {"queued", "running"} => tqPromise[t] = "pending"
        /\ tqPromise[t] = "resolved" => tqOutcome[t] = "ok"
        /\ tqPromise[t] = "rejected" => t \in TqFailed
        /\ tqTask[t] \in {"settled", "done"} => tqPromise[t] \in {"resolved", "rejected"}

(***************************************************************************)
(* C13: a task that a step starts has, among the tasks queued at that      *)
(* moment, the highest priority, and is the earliest submitted of those    *)
(* with that priority.  (Tasks are numbered in the order of submission; a  *)
(* task started by the add() that submits it finds the queue empty.)       *)
(***************************************************************************)
C13_HighestPriorityFirst ==
    [][\A t \in TaskIds :
          /\ (tqTask[t] = "new" /\ tqTask'[t] = "running") => tqQueue = <<>>
          /\ (tqTask[t] = "queued" /\ tqTask'[t] = "running") =>
                \E k \in 1..Len(tqQueue) :
                    /\ tqQueue[k].id = t
                    /\ \A j \in 1..Len(tqQueue) :
                          j # k => \/ tqQueue[j].priority < tqQueue[k].priority
                                   \/ /\ tqQueue[j].priority = tqQueue[k].priority
                                      /\ tqQueue[j].id > t]_vars

\* the third task was started while the second, submitted before it, still
\* waits in the queue
C13_Witness ==
    /\ tqTask[1] = "done"
    /\ tqTask[2] = "queued"
    /\ tqTask[3] = "running"

(***************************************************************************)
(* C14: after a task failed, its failure is recorded once in this.results, *)
(* this.running counts exactly the tasks started and not finished (the     *)
(* slot of the failed task is freed), and every task still queued is       *)
(* eventually started.                                                     *)
(***************************************************************************)
C14_FailureDoesNotStopScheduler ==
    /\ [](\A t \in TqFailed :
            /\ Cardinality(TqRecords(tqResults, t)) = 1
            /\ \A k \in TqRecords(tqResults, t) : ~tqResults[k].success)
    /\ [](tqRunning = Cardinality(TqStarted))
    /\ \A u \in TaskIds :
          (tqTask[u] = "queued" /\ TqFailed # {}) ~> (tqTask[u] # "queued")

\* caller c, suspended at pc, takes the step
SmSteps(c, pc) == smCall[c].pc = pc /\ smCall'[c] # smCall[c]

\* getSession never returns a session as old as the validity window, and a
\* session it finds expired is deleted from this.sessions before none is
\* returned
SmNeverServesExpired ==
    /\ [](smLast.op = "getSession" =>
            /\ smLast.result = "session" =>
                  /\ smLast.data.stamp = "ok"
                  /\ smNow - smLast.data.timestamp < SESSION_VALIDITY_HOURS
            /\ smLast.path = "expired" => smLast.result = "null")
    /\ [][\A c \in SmCallers :
            (smCall[c].pc # "getUnlink" /\ smCall'[c].pc = "getUnlink") =>
                smSessions'[smCall'[c].domain] = Absent]_vars

\* a load does not store a file it reads and finds expired, and unlinks it
SmLoadDropsExpired ==
    [][\A c \in SmCallers :
          (SmSteps(c, "read") /\ ~smLast'.fault
             /\ smFiles[Head(smCall[c].todo)].kind = "session"
             /\ ~IsSessionValid(smFiles[Head(smCall[c].todo)], smNow)) =>
              /\ smSessions' = smSessions
              /\ smCall'[c].pc = "initUnlink"]_vars

(***************************************************************************)
(* C15 as stated: getSession never returns a session whose age is at or    *)
(* beyond the validity window, and a session found expired, by getSession  *)
(* in memory or by a load in a file, is gone from memory and from storage  *)
(* when the unlink has settled, and none is returned.                      *)
(***************************************************************************)
C15_ExpiredIsDeletedEverywhere ==
    /\ SmNeverServesExpired
    /\ SmLoadDropsExpired
    /\ [][\A c \in SmCallers :
            /\ SmSteps(c, "getUnlink") => smFiles'[FileOf(smCall[c].domain)] = Absent
            /\ SmSteps(c, "initUnlink") => smFiles'[Head(smCall[c].todo)] = Absent]_vars

(***************************************************************************)
(* C15, amended: getSession never returns a session whose age is at or     *)
(* beyond the validity window; a session found expired is deleted from     *)
(* memory and none is returned; its file is deleted unless the unlink      *)
(* fails, in which case the failure is logged and the file stays.          *)
(***************************************************************************)
C15_ExpiredNeverServed ==
    /\ SmNeverServesExpired
    /\ SmLoadDropsExpired
    /\ [][\A c \in SmCallers :
            /\ (SmSteps(c, "getUnlink") /\ ~smLast'.fault) =>
                  smFiles'[FileOf(smCall[c].domain)] = Absent
            /\ (SmSteps(c, "initUnlink") /\ ~smLast'.fault) =>
                  smFiles'[Head(smCall[c].todo)] = Absent]_vars

\* getSession found a session that was loaded from its file and has expired
\* since, removed entry and file, and returned none
C15_Witness ==
    /\ smLast.op = "getSession"
    /\ smLast.path = "expired"
    /\ smLast.result = "null"
    /\ ~smLast.fault
    /\ smLast.found.cookies = 0
    /\ smNow - smLast.found.timestamp = SESSION_VALIDITY_HOURS

\* getSession returned, and so did a getSession of the same domain before
\* it, with no saveSession of the domain since
SmSecondGet ==
    /\ smLast.op = "getSession"
    /\ smLast.result \in {"null", "session"}
    /\ smLast.prev.result # "none"

(***************************************************************************)
(* C16 as stated: two consecutive getSession(domain) calls with no         *)
(* saveSession in between return the same result, and the second never     *)
(* returns an expired session.                                             *)
(***************************************************************************)
C16_ConsecutiveGetsAgree ==
    SmSecondGet =>
        /\ smLast.result = smLast.prev.result
        /\ smLast.data = smLast.prev.data
        /\ smLast.result = "session" =>
              smNow - smLast.data.timestamp < SESSION_VALIDITY_HOURS

(***************************************************************************)
(* C16, amended: two consecutive getSession(domain) calls, with no         *)
(* saveSession, clearSession, clearAllSessions or load writing the entry   *)
(* of the domain in between, return the same result, unless the session    *)
(* the first returned has reached the end of the validity window, in which *)
(* case the second returns none; the second never returns an expired       *)
(* session.                                                                *)
(***************************************************************************)
C16_ConsecutiveGetsAgreeUntilExpiry ==
    (SmSecondGet /\ ~smLast.prev.dirty) =>
        /\ \/ /\ smLast.result = smLast.prev.result
              /\ smLast.data = smLast.prev.data
           \/ /\ smLast.result = "null"
              /\ smLast.prev.result = "session"
              /\ smNow - smLast.prev.data.timestamp >= SESSION_VALIDITY_HOURS
        /\ smLast.result = "session" =>
              smNow - smLast.data.timestamp < SESSION_VALIDITY_HOURS

\* the second of two getSession calls returned the session the first returned
C16_Witness ==
    /\ SmSecondGet
    /\ ~smLast.prev.dirty
    /\ smLast.result = "session"
    /\ smLast.prev.result = "session"

(***************************************************************************)
(* C17: a call of saveSession never throws: it returns true or false.      *)
(***************************************************************************)
C17_SaveNeverThrows ==
    smLast.op = "saveSession" => smLast.result \in {"true", "false"}

(***************************************************************************)
(* C18: a load reads every .json file it listed, whatever failed on the    *)
(* files before, stores every file it could read and found valid, and      *)
(* initializes the manager; a call throws only when the directory could    *)
(* not be made or listed, never for a failure on one file.                 *)
(***************************************************************************)
C18_LoadSkipsFailedFiles ==
    /\ [](smLast.result = "threw" => smLast.path = "list")
    /\ [](smLast.result \notin {"none", "threw"} =>
            /\ smInitialized
            /\ smLast.visited = smLast.listed)
    /\ [][\A c \in SmCallers :
            (SmSteps(c, "read") /\ ~smLast'.fault
               /\ smCall[c].op \in {"initialize", "getSession"}
               /\ IsSessionValid(smFiles[Head(smCall[c].todo)], smNow)) =>
                smSessions'[ReplaceFirstJson(Head(smCall[c].todo))]
                    = smFiles[Head(smCall[c].todo)]]_vars

\* initialize() returned after it passed over a corrupt file, a file whose
\* unlink or read failed or that it deleted, and stored a file it read later
C18_Witness ==
    /\ smLast.op = "initialize"
    /\ smLast.result = "void"
    /\ FileOf(<<"a">>) \in smLast.visited \ smLast.loaded
    /\ FileOf(<<"b">>) \in smLast.loaded
    /\ smSessions[<<"b">>] = smFiles[FileOf(<<"b">>)]

\* the puppeteer.launch() that the getPage() of caller c awaited inside
\* initialize() has returned a browser in this step
BpLaunched(c) == bpCaller[c].pc = "init" /\ bpCaller'[c].pc \notin {"init", "idle"}

(***************************************************************************)
(* C19: with no close() in between, the calls of initialize(), sequential  *)
(* or overlapping, launch the browser process exactly once: no second      *)
(* browser is launched while the pool is open.                             *)
(***************************************************************************)
C19_LaunchedOnce ==
    [][\A c \in CallerIds : BpLaunched(c) => bpBrowser = "null"]_vars

\* the promise of the wait of caller c is pending
BpPending(c) == bpCaller[c].armed /\ ~bpCaller[c].settled

(***************************************************************************)
(* C20: a getPage call that waits at capacity never stays pending forever: *)
(* its promise is eventually resolved with a page or rejected, at the      *)
(* latest by the wait timeout, whatever the pool does meanwhile.           *)
(***************************************************************************)
C20_WaitAlwaysCompletes ==
    \A c \in CallerIds : BpPending(c) ~> ~BpPending(c)

\* the test of the batch run for a disconnection (part_004:220-224): the
\* message of the error holds "disconnected", "Target closed", "Session
\* closed" or "Protocol error", or the pool has no browser
ClassifiedAsDisconnection(outcome, browser) ==
    outcome = "disconnected" \/ browser = "null"

\* In this step the getPage() call of caller c, its promise still pending,
\* met a browser that is not connected: at the connection check on entry, at
\* the end of a responsiveness check or of a page creation, or at a tick of
\* the wait.
BpFoundDisconnected(c) ==
    /\ ~bpCaller[c].settled
    /\ \/ /\ bpBrowser = "stale"
          /\ bpCaller[c].pc = "idle"
          /\ bpLast'.caller = c
       \/ /\ bpBrowser # "connected"
          /\ bpCaller[c].pc \in {"reuseEval", "creating", "waitEval"}
          /\ bpCaller'[c] # bpCaller[c]
          /\ bpCaller'[c].settled = bpCaller[c].settled
          /\ bpCaller'[c].pc # "holding"
       \/ /\ bpBrowser # "connected"
          /\ bpCaller[c].pc = "waiting"
          /\ bpCaller'[c] # bpCaller[c]
          /\ bpLast'.outcome # "timeout"

(***************************************************************************)
(* C21: a getPage() call that finds the browser disconnected, at any of    *)
(* its steps, ends in that step with an error that the batch run           *)
(* classifies as a disconnection.                                          *)
(***************************************************************************)
C21_DisconnectFailsAsDisconnection ==
    [][\A c \in CallerIds :
          BpFoundDisconnected(c) =>
              /\ bpLast'.caller = c
              /\ ClassifiedAsDisconnection(bpLast'.outcome, bpBrowser')]_vars

\* a step in which the idle timer of page p fires and removes the page from
\* the page table (browser-pool.js:361-379)
BpEvicts(p) ==
    /\ p \in bpTimers
    /\ p \in Tracked(bpPages)
    /\ p \notin Tracked(bpPages')
    /\ bpTimers' = bpTimers \ {p}
    /\ bpCaller' = bpCaller
    /\ bpBrowser' = bpBrowser

BpUnexpectedDisconnect == bpBrowser = "connected" /\ bpBrowser' = "stale"

(* C23: a step calls the registered handler if and only if it is an            *)
(* unexpected disconnection of the browser: once for each such event, and      *)
(* never in a step of close().                                                 *)
C23_HandlerOnlyOnUnexpectedDisconnect ==
    [][bpHandler'.called <=> BpUnexpectedDisconnect]_vars

(* C24: in an unexpected disconnection the handler is called before the pool   *)
(* clears its state: the page table and the timer table the handler finds are  *)
(* the ones the pool held when the browser disconnected.                       *)
C24_HandlerBeforeCleanup ==
    [][BpUnexpectedDisconnect /\ bpHandler'.called =>
           /\ bpHandler'.pages = Tracked(bpPages)
           /\ bpHandler'.timers = bpTimers]_vars

(* C25: when close() returns, the browser reference is null and the page       *)
(* table and the idle-timer table are empty.                                   *)
C25_CloseResetsPool ==
    [][bpLast'.outcome = "closed" =>
           /\ bpBrowser' = "null"
           /\ bpHasKey' = {}
           /\ Tracked(bpPages') = {}
           /\ bpTimers' = {}]_vars

(* C26: within one batch run the cursor never decreases: apart from the reset  *)
(* that starts a run, no step lowers currentIndex, whatever recovery cycles    *)
(* and nested resumptions the run goes through.                                *)
C26_CursorNeverDecreases ==
    [][rbPc # "run_fetch" => rbCurrentIndex' >= rbCurrentIndex]_vars

\* two recovery cycles deep, the run resumed at item 0 and has gone on to item 1
C26_Witness ==
    /\ rbCycles >= 2
    /\ Len(rbStack) >= 5
    /\ 0 \in rbResumedAt
    /\ rbCurrentIndex = 1

(* C27: the recovery-attempt counter is at most MAX_RECOVERY_ATTEMPTS in       *)
(* every reachable state, and a recovery cycle is under way (cooldown, then    *)
(* close and reinitialisation) only if it was entered with the counter below   *)
(* the bound.                                                                  *)
C27_AttemptsBounded ==
    /\ rbAttempts <= MAX_RECOVERY_ATTEMPTS
    /\ rbPc = "cooldown" => rbAttempts < MAX_RECOVERY_ATTEMPTS
    /\ rbPc = "reinit" => rbAttempts >= 1

\* a recovery was entered with the counter at the bound, and refused
C27_Witness ==
    /\ rbExhausted
    /\ rbAttempts = MAX_RECOVERY_ATTEMPTS
    /\ rbPc \notin {"cooldown", "reinit"}

\* the step ends the only processing of an item whose domain group had a
\* source marked outdated and a source whose value was written, and the loop
\* of processRemainingItems goes on to the next item
MixedItemEnds ==
    /\ rbPc = "source"
    /\ rbPc' \in {"item_fetch", "item_init"}
    /\ Len(rbStack') = Len(rbStack)
    /\ Top(rbStack').i = Top(rbStack).i + 1
    /\ rbStarted'[Top(rbStack).i] = 1
    /\ \E s \in Sources : rbMarks'[Top(rbStack).i][s] > 0
    /\ \E s \in Sources : rbCommits'[Top(rbStack).i][s] > 0

\* the result of the item that the step has pushed to the details
LastDetail == Top(rbStack').res.details[Len(Top(rbStack').res.details)]

(* C28: when a domain group in which one source had no screenshot or no price  *)
(* and another source was extracted has been processed, the result of the      *)
(* item lists the sources marked outdated in its outdatedUrls, no source of    *)
(* the item was processed twice, and the item's aggregate was updated from     *)
(* the extracted values.                                                       *)
C28_FailingSourceIsolated ==
    [][MixedItemEnds =>
           LET i == Top(rbStack).i
           IN  /\ LastDetail.item = i
               /\ LastDetail.outdatedUrls = {s \in Sources : rbMarks'[i][s] > 0}
               /\ \A s \in Sources : rbMarks'[i][s] + rbCommits'[i][s] <= 1
               /\ rbAggregates'[i] = 1]_vars

\* the step ends, without an error, the processing of an item that had a
\* source with a url that cannot be parsed beside a source that was
\* processed, and the loop of processRemainingItems goes on to the next item
BadUrlItemEnds ==
    /\ rbPc = "source"
    /\ rbItem.bad # {}
    /\ rbPc' \in {"item_fetch", "item_init"}
    /\ Len(rbStack') = Len(rbStack)
    /\ Top(rbStack').i = Top(rbStack).i + 1
    /\ Top(rbStack').res.details[Len(Top(rbStack').res.details)].error = "none"

(* C29: a source whose url cannot be parsed is in no domain group, so it is    *)
(* never processed, and the result of its item names it: the sources a result  *)
(* names are its outdatedUrls.                                                 *)
C29_InvalidUrlReported ==
    [][BadUrlItemEnds =>
           LET i == Top(rbStack).i
               r == Top(rbStack').res.details[Len(Top(rbStack').res.details)]
           IN  /\ r.item = i
               /\ \A s \in rbItem.bad : rbMarks'[i][s] = 0 /\ rbCommits'[i][s] = 0
               /\ rbItem.bad \subseteq r.outdatedUrls]_vars

\* a cleanup() call that found the pipeline initialized returns in the step
CleanupReturns ==
    rbCleaning'.screens + rbCleaning'.closing < rbCleaning.screens + rbCleaning.closing

\* a cleanup() call is made in the step and returns at once
CleanupSkipped == rbCleanups' = rbCleanups + 1 /\ rbCleaning' = rbCleaning

(* C30: cleanup() may be called again while a call is under way or after it    *)
(* has ended.  No call raises; each call that found the pipeline initialized   *)
(* returns with the pool closed and the pipeline marked uninitialized,         *)
(* however the calls interleave; and a call made after that changes nothing.   *)
C30_CleanupIdempotent ==
    [][/\ CleanupReturns => bpBrowser' = "null" /\ ~rbInitialized'
       /\ CleanupSkipped => /\ ~rbInitialized'
                            /\ bpBrowser' = bpBrowser
                            /\ rbInitialized' = rbInitialized]_vars

\* of two cleanup() calls that overlapped, one has returned and the other is
\* still awaiting close()
C30_Witness ==
    /\ rbCleanups = 2
    /\ rbCleaning.closing = 1
    /\ rbCleaning.screens = 0
    /\ ~rbInitialized
    /\ bpBrowser = "null"

\* the step starts processMaterialItem for item i
ItemStarts(i) == rbStarted'[i] = rbStarted[i] + 1

(* C31: an item is started only with a connected browser: when the pool's      *)
(* browser is null or disconnected at the head of the loop, the run enters     *)
(* recovery instead of processing the item.                                    *)
C31_RecoveryBeforeItem ==
    [][\A i \in Items : ItemStarts(i) => bpBrowser' = "connected"]_vars

\* a run is between its first item and the return of processRemainingItems
RunInLoop == rbPc \in {"item_init", "item_fetch", "source", "cooldown", "reinit"}

(* C32: within a run the recovery-attempt counter counts every recovery cycle  *)
(* of the run, also after a recovery that resumed the items; it is lowered     *)
(* only to zero, and only in a step after which every item of the run has      *)
(* been processed and processRemainingItems has returned.                      *)
C32_CounterResetOnlyAtCompletion ==
    /\ [](RunInLoop => rbAttempts = rbCycles)
    /\ [][rbPc # "run_fetch" /\ rbAttempts' < rbAttempts =>
             /\ rbAttempts' = 0
             /\ rbPc' = "post"
             /\ \A i \in Items : i < rbN => rbStarted'[i] >= 1]_vars

\* a recovery resumed at item 0, item 0 was processed, and the recovery
\* entered at item 1 is the second cycle of the counter
C32_Witness ==
    /\ rbPc = "reinit"
    /\ 0 \in rbResumedAt
    /\ Top(rbStack).start = 1
    /\ rbStarted[0] >= 1
    /\ rbAttempts = 2

(* C33: an unexpected disconnection leaves the page table and the timer table  *)
(* empty and the browser reference in place; from then until close() the pool  *)
(* has no connected browser: the reference stays as it is or is reset by       *)
(* close(), a call of initialize() awaits no launch, and a call of getPage()   *)
(* ends at once, as disconnected.                                              *)
C33_StaleUntilClose ==
    [][/\ BpUnexpectedDisconnect =>
              /\ bpHasKey' = {}
              /\ Tracked(bpPages') = {}
              /\ bpTimers' = {}
       /\ bpBrowser = "stale" =>
              /\ bpBrowser' \in {"stale", "null"}
              /\ \A c \in CallerIds :
                     bpCaller[c].pc = "idle" =>
                         /\ bpCaller'[c].pc = "idle"
                         /\ bpLast'.caller = c => bpLast'.outcome = "disconnected"]_vars

\* the values priceWithTax of the item sources of one item
Prices == 1..MaxPrice

\* data.sources.sort((a, b) => a.priceWithTax - b.priceWithTax)
\* (part_004:507-508): the updates of the sources in srcs, pushed in the
\* order of the sources, in ascending order of price; the sort is stable
SortByPrice(srcs, price) ==
    LET before(a, b) == price[a] < price[b] \/ (price[a] = price[b] /\ a < b)
    IN  [j \in 1..Cardinality(srcs) |->
            CHOOSE s \in srcs : Cardinality({t \in srcs : before(t, s)}) = j - 1]

\* the aggregate update that updateMaterialItems builds for one item from
\* the updates of its sources srcs (part_004:510-530): the cost and the
\* vendor of the first source in the order of price, the sale price of the
\* last
MaterialUpdate(srcs, price) ==
    LET sorted == SortByPrice(srcs, price)
        lowestPriceSource == sorted[1]
        highestPriceSource == sorted[Len(sorted)]
    IN  [cost |-> price[lowestPriceSource],
         cheapestVendorId |-> lowestPriceSource,
         salePrice |-> price[highestPriceSource]]

\* the step ends the processing of item i without a disconnection error,
\* and the loop of processRemainingItems goes on to the next item
ItemEnds(i) ==
    /\ rbPc = "source"
    /\ Top(rbStack).i = i
    /\ rbPc' \in {"item_fetch", "item_init"}
    /\ Len(rbStack') = Len(rbStack)
    /\ Top(rbStack').i = i + 1
    /\ LastDetail.error # "disconnection"

\* the sources of item i whose price was extracted and written in the
\* processing that the step ends
Extracted(i) ==
    rbItem.ok \cup {s \in Sources : rbCommits'[i][s] > rbCommits[i][s]}

(* C34: when the processing of an item ends, an item with at least one         *)
(* extracted source gets one aggregate update, whose cost is the lowest and    *)
(* whose sale price is the highest price with tax of the extracted sources,    *)
(* the cheapest vendor being a source with the lowest price; an item with no   *)
(* extracted source gets no aggregate update.                                  *)
C34_AggregateFromExtracted ==
    [][\A i \in Items :
          ItemEnds(i) =>
              IF Extracted(i) = {}
              THEN rbAggregates'[i] = rbAggregates[i]
              ELSE /\ rbAggregates'[i] = rbAggregates[i] + 1
                   /\ \A price \in [Extracted(i) -> Prices] :
                          LET u == MaterialUpdate(Extracted(i), price)
                          IN  /\ \A s \in Extracted(i) : u.cost <= price[s]
                              /\ \A s \in Extracted(i) : u.salePrice >= price[s]
                              /\ u.cheapestVendorId \in Extracted(i)
                              /\ price[u.cheapestVendorId] = u.cost]_vars

\* caller c has page p on lease: getPage() marked it in use for c and awaits
\* its responsiveness check, or c received it and has not released it
Leases(c, p) ==
    /\ bpCaller[c].pc \in {"reuseEval", "waitEval", "holding"}
    /\ bpCaller[c].page = p

(* C35: no page is on lease to two callers at once, and a tracked page on      *)
(* lease is marked in use, whatever the interleaving of getPage() on its       *)
(* reuse path and its waiting path and of release() on the domain; every       *)
(* caller releases the page it received once.                                  *)
C35_NoDoubleLease ==
    \A p \in PageIds :
        /\ \A c, b \in CallerIds : Leases(c, p) /\ Leases(b, p) => c = b
        /\ \A c \in CallerIds :
               Leases(c, p) /\ p \in Tracked(bpPages) => bpInUse[p]

\* a page released by its caller is on lease again, through the waiting
\* path, while another caller holds the other page of the domain and a third
\* waits for one
C35_Witness ==
    \E a, b, c \in CallerIds :
        /\ bpCaller[a].pc = "waitEval"
        /\ bpInUse[bpCaller[a].page]
        /\ bpCaller[b].pc = "holding"
        /\ bpCaller[b].domain = bpCaller[a].domain
        /\ bpInUse[bpCaller[b].page]
        /\ bpCaller[c].pc = "waiting"
        /\ bpCaller[c].domain = bpCaller[a].domain

\* the step is the failure of the responsiveness check of the page that
\* caller c had on lease: getPage() goes on to another page, to a new page,
\* to the wait or to a launch
CheckFails(c) ==
    /\ bpCaller[c].pc \in {"reuseEval", "waitEval"}
    /\ bpCaller'[c].pc \in {"reuseEval", "creating", "waiting", "init"}
    /\ <<bpCaller'[c].pc, bpCaller'[c].page>> # <<bpCaller[c].pc, bpCaller[c].page>>

(* C36: when the responsiveness check of a leased page fails, exactly that     *)
(* page leaves the page table: no other page, so none on lease to another      *)
(* caller, is removed, and the unresponsive page is tracked no more.           *)
C36_ExactlyFailedPageRemoved ==
    [][\A c \in CallerIds :
          CheckFails(c) =>
              Tracked(bpPages') = Tracked(bpPages) \ {bpCaller[c].page}]_vars

(* C37: every tracked page marked in use is on lease to a caller whose         *)
(* getPage() has handed it over or is still to settle: a getPage() that has    *)
(* failed, by the wait timeout or by a disconnection, leaves no page marked    *)
(* in use, so that a failed call takes no slot of the domain.                  *)
C37_InUseOnlyWhenLeased ==
    \A p \in Tracked(bpPages) :
        bpInUse[p] =>
            \E c \in CallerIds : Leases(c, p) /\ ~bpCaller[c].settled

\* the step ends a saveSession of caller c with the result false
SaveFails(c) ==
    /\ smCall[c].op = "saveSession"
    /\ smCall[c].pc = "write"
    /\ smLast'.caller = c
    /\ smLast'.result = "false"

(* C38: when saveSession(domain, ...) returns false, the session data of the   *)
(* failed call is not left in this.sessions unless the file of the domain      *)
(* holds it: getSession(domain) does not return a session that was not         *)
(* saved, and the in-memory record agrees with the persisted one.              *)
C38_FailedSaveLeavesStore ==
    [][\A c \in SmCallers :
          SaveFails(c) =>
              LET d == smCall[c].domain
              IN  smSessions'[d] = smCall[c].data =>
                      smFiles'[FileOf(d)] = smCall[c].data]_vars

\* the step is a return of processAllMaterialItems
RunReturns == rbPc # "returned" /\ rbPc' = "returned"

(* C39: whenever processAllMaterialItems returns, with success or with an      *)
(* error, after a recovery or without one, the pool has been closed: its       *)
(* browser is null.                                                            *)
C39_ClosedAtReturn ==
    [][RunReturns => bpBrowser' = "null"]_vars

\* a recovery is under way or has left isRecovering set, or a cleanup() call
\* is suspended
RecoveryOrCleanup ==
    \/ rbRecovering
    \/ rbPc \in {"cooldown", "reinit"}
    \/ \E j \in 1..Len(rbStack) : rbStack[j].fn = "rec"
    \/ rbCleaning.screens > 0
    \/ rbCleaning.closing > 0

\* the step is the call of processRemainingItems(materialItems, 0) of a run
\* of at least one item
RunStartsItems == rbPc = "run_fetch" /\ rbPc' # "returned" /\ rbN' > 0

(* C40: whenever isInitialized is true and neither a recovery nor a cleanup    *)
(* is in progress, the pool holds a launched browser; so a run that follows    *)
(* a completed run, with no recovery or cleanup in progress, starts item 0     *)
(* at once, without a recovery cycle.                                          *)
C40_InitializedHasBrowser ==
    /\ [](rbInitialized /\ ~RecoveryOrCleanup => bpBrowser # "null")
    /\ [][RunStartsItems /\ rbInitialized /\ ~RecoveryOrCleanup =>
             rbStarted'[0] = 1 /\ rbPc' \in {"item_fetch", "item_init"}]_vars

====
